---- MODULE Spec2Model ----
(***************************************************************************)
(* YuuDB storage engines: the BitCask engine (one append-only log file and *)
(* an in-memory KeyDir), the Memory engine, and the Engine trait's default *)
(* scan_prefix.  The log file is modelled byte by byte, the file system as *)
(* directory entries that name inodes, a file lock as held on an inode by  *)
(* an open handle.                                                         *)
(***************************************************************************)
EXTENDS Integers, Sequences, FiniteSets, TLC

(***************************************************************************)
(* Bounds of the model and the inputs that operations are drawn from.      *)
(***************************************************************************)
\* The largest number of entries the log file holds when set or delete is called.
MaxEntries == 3

\* The same, where prefix scans and iterators are explored.
MaxScanEntries == 3

\* The largest number of scan(..) results that the calls since the last
\* flush have left behind when a further set or delete is called.
MaxUnsynced == 1

\* The largest length of the log file, in bytes, at which set or delete is
\* called where appends may fail.
MaxLogBytes == 12

\* The same, where another process opens the log path step by step.
MaxShared == 2

\* Keys and values that set, get and delete are called with.
Keys == {<<>>, <<1>>, <<1, 255>>}
Values == {<<>>, <<7>>}

\* The keys that the bounds of the ranges scan is called with hold.
BoundKeys == {<<1>>}

\* The thresholds new_compact is called with, as fractions <<numerator,
\* denominator>>: each is an f64 exactly.
Thresholds == {<<-1, 1>>, <<0, 1>>, <<1, 2>>, <<1, 1>>, <<2, 1>>}

\* Keys, values, prefixes and range bounds for the prefix scans and the
\* scan iterators: bytes next to the 0xff byte that scan_prefix strips.
ScanKeys == {<<1>>, <<1, 255>>, <<2>>, <<255>>}
ScanValues == {<<>>, <<7>>}
DeletedKeys == {<<1>>}
Prefixes == {<<>>, <<1>>, <<1, 254>>, <<1, 255>>, <<2>>, <<255>>, <<255, 255>>}
IterBoundKeys == {<<1, 255>>}

\* The keys that the bounds of scan's ranges hold where every combination
\* of bounds is taken: start below, at and above end.
RangeKeys == {<<1>>, <<1, 255>>}

\* The keys that set is called with where compact() is taken step by step
\* and where calls fail; delete is called with DeletedKeys.
StepKeys == {<<1>>, <<1, 255>>}

(***************************************************************************)
(* Option<T> and Result<T>.                                                *)
(***************************************************************************)
None == [some |-> FALSE]
Some(v) == [some |-> TRUE, v |-> v]

(***************************************************************************)
(* Byte strings: Vec<u8> and its lexicographic order (Ord for [u8]).       *)
(***************************************************************************)
RECURSIVE KeyLess(_, _)
KeyLess(a, b) ==
    IF b = <<>> THEN FALSE
    ELSE IF a = <<>> THEN TRUE
    ELSE IF a[1] # b[1] THEN a[1] < b[1]
    ELSE KeyLess(Tail(a), Tail(b))

KeyLeq(a, b) == a = b \/ KeyLess(a, b)

\* A slip: the keys are taken in descending order.
RECURSIVE SortedKeysDescending(_)
SortedKeysDescending(S) ==
    IF S = {} THEN <<>>
    ELSE LET m == CHOOSE x \in S : \A y \in S : KeyLeq(y, x)
         IN <<m>> \o SortedKeysDescending(S \ {m})

\* The ascending order a BTreeMap iterates its keys in.
RECURSIVE SortedKeys(_)
SortedKeys(S) ==
    IF S = {} THEN <<>>
    ELSE LET m == CHOOSE x \in S : \A y \in S : KeyLeq(x, y)
         IN <<m>> \o SortedKeys(S \ {m})

(***************************************************************************)
(* Entry encoding (bitcask.rs, header comment and Log::append_entry).      *)
(***************************************************************************)
\* u32::to_be_bytes
U32ToBe(n) ==
    << (n \div 16777216) % 256, (n \div 65536) % 256, (n \div 256) % 256, n % 256 >>

\* A slip: the value length written little-endian (to_le_bytes).
I32ToLe(n) ==
    IF n >= 0
    THEN << n % 256, (n \div 256) % 256, (n \div 65536) % 256, (n \div 16777216) % 256 >>
    ELSE <<255, 255, 255, 255>>

\* i32::to_be_bytes: two's complement for the tombstone marker -1.
I32ToBe(n) ==
    IF n >= 0 THEN U32ToBe(n)
    ELSE LET m == U32ToBe(-n - 1)
         IN << 255 - m[1], 255 - m[2], 255 - m[3], 255 - m[4] >>

\* u32::from_be_bytes, for lengths below 2^31 (the caller tests the top bit).
U32FromBe(b) == b[1] * 16777216 + b[2] * 65536 + b[3] * 256 + b[4]

\* i32::from_be_bytes
I32FromBe(b) ==
    IF b[1] < 128 THEN U32FromBe(b)
    ELSE -(U32FromBe(<< 255 - b[1], 255 - b[2], 255 - b[3], 255 - b[4] >>)) - 1

\* A slip: the entry is written at the start of the file (SeekFrom::Start(0)
\* for SeekFrom::End(0)), over what is there.
AppendEntryAtStart(file, key, value) ==
    LET bytes == U32ToBe(Len(key))
                 \o I32ToBe(IF value.some THEN Len(value.v) ELSE -1)
                 \o key
                 \o (IF value.some THEN value.v ELSE <<>>)
    IN [file |-> bytes \o SubSeq(file, Len(bytes) + 1, Len(file)),
        offset |-> 0,
        append_length |-> Len(bytes)]

\* A slip: a tombstone is written with value length 0 for -1.
AppendEntryNoMarker(file, key, value) ==
    [file |-> file \o U32ToBe(Len(key))
                   \o U32ToBe(IF value.some THEN Len(value.v) ELSE 0)
                   \o key
                   \o (IF value.some THEN value.v ELSE <<>>),
     offset |-> Len(file),
     append_length |-> 4 + 4 + Len(key) + (IF value.some THEN Len(value.v) ELSE 0)]

\* Log::append_entry on a file with contents `file`: the new contents, the
\* offset the entry starts at and the number of bytes written.
AppendEntry(file, key, value) ==
    LET offset == Len(file)
        key_length == Len(key)
        append_length == 4 + 4 + key_length + (IF value.some THEN Len(value.v) ELSE 0)
        bytes == U32ToBe(key_length)
                 \o I32ToBe(IF value.some THEN Len(value.v) ELSE -1)
                 \o key
                 \o (IF value.some THEN value.v ELSE <<>>)
    IN [file |-> file \o bytes, offset |-> offset, append_length |-> append_length]

\* A slip: the key's length is left out of the value's offset.
ValueOffsetNoKey(offset, write_length, value_length) == offset + 8

\* The value_offset that set and write_log record for an entry appended at
\* `offset`: offset + write_length - value_length.
ValueOffset(offset, write_length, value_length) == offset + write_length - value_length

\* Log::read_value: the seek succeeds at any offset; read_exact fills a
\* buffer of value_length bytes and fails when the file ends before the
\* buffer is full.  An empty buffer is full at once, wherever the offset is.
ReadValue(file, value_offset, value_length) ==
    IF value_length = 0 THEN [ok |-> TRUE, v |-> <<>>]
    ELSE IF value_offset + value_length > Len(file) THEN [ok |-> FALSE]
    ELSE [ok |-> TRUE, v |-> SubSeq(file, value_offset + 1, value_offset + value_length)]

(***************************************************************************)
(* Log::build_key_dir.                                                     *)
(***************************************************************************)
\* A slip: the entry is taken without the test that its value fits the file.
ReadEntryNoOverrunTest(file, offset) ==
    LET file_length == Len(file)
    IN IF offset + 8 > file_length THEN [eof |-> TRUE]
       ELSE LET key_length == U32FromBe(SubSeq(file, offset + 1, offset + 4))
                marker == I32FromBe(SubSeq(file, offset + 5, offset + 8))
                value_offset == offset + 4 + 4 + key_length
            IN IF value_offset > file_length THEN [eof |-> TRUE]
               ELSE [eof |-> FALSE,
                     key |-> SubSeq(file, offset + 9, value_offset),
                     value_offset |-> value_offset,
                     value_length |-> IF marker >= 0 THEN Some(marker) ELSE None]

\* The closure of build_key_dir's loop: one entry read at `offset`.
\* eof is the std::io::ErrorKind::UnexpectedEof of a read_exact or of the
\* value-length test.
ReadEntry(file, offset) ==
    LET file_length == Len(file)
    IN IF offset + 4 > file_length THEN [eof |-> TRUE]
       ELSE LET kb == SubSeq(file, offset + 1, offset + 4)
            IN IF offset + 8 > file_length THEN [eof |-> TRUE]
               ELSE IF kb[1] >= 128 THEN [eof |-> TRUE]  \* a key longer than any file here
               ELSE
               LET key_length == U32FromBe(kb)
                   marker == I32FromBe(SubSeq(file, offset + 5, offset + 8))
                   value_length == IF marker >= 0 THEN Some(marker) ELSE None
                   value_offset == offset + 4 + 4 + key_length
               IN IF value_offset > file_length THEN [eof |-> TRUE]
                  ELSE IF value_length.some /\ value_offset + value_length.v > file_length
                       THEN [eof |-> TRUE]
                  ELSE [eof |-> FALSE,
                        key |-> SubSeq(file, offset + 9, value_offset),
                        value_offset |-> value_offset,
                        value_length |-> value_length]

\* A slip: the key stays in the KeyDir.
KeyDirRemoveKeeps(kd, key) == kd

\* KeyDir::insert and KeyDir::remove
KeyDirInsert(kd, key, entry) ==
    [k \in (DOMAIN kd) \cup {key} |-> IF k = key THEN entry ELSE kd[k]]

KeyDirRemove(kd, key) == [k \in (DOMAIN kd) \ {key} |-> kd[k]]

EmptyKeyDir == [k \in {} |-> <<0, 0>>]

\* The while loop of build_key_dir: the KeyDir and the length the file is left
\* with (set_len at the first incomplete entry).  root: whether the KeyDir
\* has a root node; the first insert allocates it, and a remove leaves it in
\* place, also when it takes the last key.
RECURSIVE BuildLoop(_, _, _, _)
BuildLoop(file, offset, kd, root) ==
    IF offset >= Len(file) THEN [key_dir |-> kd, root |-> root, length |-> Len(file)]
    ELSE LET r == ReadEntry(file, offset)
         IN IF r.eof THEN [key_dir |-> kd, root |-> root, length |-> offset]
            ELSE IF r.value_length.some
                 THEN BuildLoop(file, r.value_offset + r.value_length.v,
                                KeyDirInsert(kd, r.key, <<r.value_offset, r.value_length.v>>),
                                TRUE)
                 ELSE BuildLoop(file, r.value_offset, KeyDirRemove(kd, r.key), root)

\* build_key_dir: the loop on KeyDir::new(), which has no root node.
BuildKeyDir(file) == BuildLoop(file, 0, EmptyKeyDir, FALSE)

\* The number of entries build_key_dir's loop would consume from `file`.
RECURSIVE CountLoop(_, _)
CountLoop(file, offset) ==
    IF offset >= Len(file) THEN 0
    ELSE LET r == ReadEntry(file, offset)
         IN IF r.eof THEN 0
            ELSE 1 + CountLoop(file, r.value_offset
                                     + (IF r.value_length.some THEN r.value_length.v ELSE 0))

EntryCount(file) == CountLoop(file, 0)

(***************************************************************************)
(* The file system: directory entries, inodes, and flock(2) locks.         *)
(***************************************************************************)
LogPath == "yuudb"
NewPath == "yuudb.new"
Paths == {LogPath, NewPath}

\* PathBuf::set_extension("new") on the paths of the model.
SetExtensionNew(path) == NewPath

Inodes == {"i1", "i2", "i3"}
Absent == "absent"

\* The order new inodes are taken in.
InodeBefore(i, j) == <<i, j>> \in {<<"i1", "i2">>, <<"i1", "i3">>, <<"i2", "i3">>}

VARIABLES
    fs,       \* [dir: path -> inode or Absent, data: inode -> bytes, locks: locked inodes]
    log,      \* BitCask.log: [open, path, ino], or NoLog when no engine exists
    key_dir,  \* BitCask.key_dir: key -> <<value_offset, value_length>>
    key_dir_root,  \* whether BitCask.key_dir has a root node (BTreeMap.root is Some)
    mem,      \* Memory.data: key -> value
    mem_root, \* whether Memory.data has a root node
    ret,      \* what the last call returned, with the arguments it was given
    iter,     \* the ScanIterators that borrow the engines, or NoIter
    saved,    \* scan(..) of the handle when it was last dropped
    orig,     \* the length a truncation cut the log file to, and what was left
    compacting,  \* the locals of a compact() call that is under way, or NoCompact
    synced,   \* how many bytes of the log path's file a sync_all has covered
    promised, \* the scan(..) results a crash may leave, since the last flush
    opening   \* the BitCask::new of another process under way, or NoOpening

\* The variables that only the stepwise compaction and the crashes change.
cvars == <<compacting, synced, promised, opening>>

vars == <<fs, log, key_dir, key_dir_root, mem, mem_root, iter, ret, saved, orig, compacting, synced, promised,
         opening>>

NoCompact == [pc |-> "none"]
NoOpening == [pc |-> "none"]

NoLog == [open |-> FALSE]
NoRet == [op |-> "none"]
NoIter == [open |-> FALSE]

\* An inode is in use while a path names it or an open handle holds it.
InodeFree(f, held, i) == (\A p \in Paths : f.dir[p] # i) /\ i \notin held

AllocInode(f, held) ==
    CHOOSE i \in Inodes :
        /\ InodeFree(f, held, i)
        /\ \A j \in Inodes : InodeFree(f, held, j) => (i = j \/ InodeBefore(i, j))

\* Closing a handle on `ino`: its lock is released, and an inode no path names
\* is freed.
CloseFile(f, ino) ==
    [dir |-> f.dir,
     data |-> IF \A p \in Paths : f.dir[p] # ino
              THEN [f.data EXCEPT ![ino] = <<>>] ELSE f.data,
     locks |-> f.locks \ {ino}]

\* A slip: the lock is not tested (or not taken by the first handle).
TryLockAlways(f, ino) == TRUE

\* FileExt::try_lock_exclusive on a freshly opened handle: an error when any
\* other open handle holds a lock on the inode.
TryLockExclusive(f, ino) == ino \notin f.locks

\* Log::new: OpenOptions read/write/create, then try_lock_exclusive.
\* `held` are the inodes that open handles hold.
LogNew(f, held, path) ==
    LET ino == IF f.dir[path] = Absent THEN AllocInode(f, held) ELSE f.dir[path]
        opened == [f EXCEPT !.dir[path] = ino]
    IN IF TryLockExclusive(opened, ino)
       THEN [ok |-> TRUE,
             fs |-> [opened EXCEPT !.locks = @ \cup {ino}],
             log |-> [open |-> TRUE, path |-> path, ino |-> ino]]
       ELSE [ok |-> FALSE, fs |-> opened]

(***************************************************************************)
(* BitCask::new, status, compact.                                          *)
(***************************************************************************)
\* A slip: build_key_dir stops at an incomplete entry and leaves the file
\* as long as it was.
BitCaskNewNoSetLen(f, held, path) ==
    LET Built(n, b) ==
            [ok |-> TRUE, fs |-> n.fs, log |-> n.log, key_dir |-> b.key_dir,
             root |-> b.root]
        Logged(n) ==
            IF ~n.ok THEN [ok |-> FALSE, fs |-> n.fs]
            ELSE Built(n, BuildKeyDir(n.fs.data[n.log.ino]))
    IN Logged(LogNew(f, held, path))

\* BitCask::new: Log::new, then build_key_dir, whose set_len cuts an
\* incomplete last entry.
BitCaskNew(f, held, path) ==
    LET Built(n, b) ==
            [ok |-> TRUE,
             fs |-> [n.fs EXCEPT !.data[n.log.ino] = SubSeq(@, 1, b.length)],
             log |-> n.log,
             key_dir |-> b.key_dir,
             root |-> b.root]
        Logged(n) ==
            IF ~n.ok THEN [ok |-> FALSE, fs |-> n.fs]
            ELSE Built(n, BuildKeyDir(n.fs.data[n.log.ino]))
    IN Logged(LogNew(f, held, path))

\* A slip: the header counted as 4 bytes.
StatusHalfHeader(kd, file) ==
    [underflow |-> FALSE, name |-> "bitcask", key_count |-> Cardinality(DOMAIN kd),
     size |-> 0, total_disk_size |-> Len(file),
     live_disk_size |-> 4 * Cardinality(DOMAIN kd),
     garbage_disk_size |-> Len(file) - 4 * Cardinality(DOMAIN kd)]

\* A slip: the fold of status() adds the key lengths only.
RECURSIVE SizeFoldKeysOnly(_, _)
SizeFoldKeysOnly(kd, keys) ==
    IF keys = {} THEN 0
    ELSE LET k == CHOOSE x \in keys : TRUE
         IN Len(k) + SizeFoldKeysOnly(kd, keys \ {k})

\* The fold of status(): the sum of key.len() + value_length over the KeyDir.
RECURSIVE SizeFold(_, _)
SizeFold(kd, keys) ==
    IF keys = {} THEN 0
    ELSE LET k == CHOOSE x \in keys : TRUE
         IN Len(k) + kd[k][2] + SizeFold(kd, keys \ {k})

\* BitCask::status.  The u64 subtraction underflows when live_disk_size
\* exceeds total_disk_size: a panic (debug build) or a wrapped value.
Status(kd, file) ==
    LET key_count == Cardinality(DOMAIN kd)
        size == SizeFold(kd, DOMAIN kd)
        total_disk_size == Len(file)
        live_disk_size == size + 8 * key_count
    IN IF total_disk_size < live_disk_size
       THEN [underflow |-> TRUE, name |-> "bitcask", key_count |-> key_count,
             size |-> size, total_disk_size |-> total_disk_size,
             live_disk_size |-> live_disk_size]
       ELSE [underflow |-> FALSE, name |-> "bitcask", key_count |-> key_count,
             size |-> size, total_disk_size |-> total_disk_size,
             live_disk_size |-> live_disk_size,
             garbage_disk_size |-> total_disk_size - live_disk_size]

\* The loop of write_log over the KeyDir in ascending key order: each value
\* is read from the old log and appended to the new one.
RECURSIVE WriteLoop(_, _, _, _, _)
WriteLoop(old, kd, keys, new, new_kd) ==
    IF keys = <<>> THEN [ok |-> TRUE, file |-> new, key_dir |-> new_kd]
    ELSE LET key == Head(keys)
             value_offset == kd[key][1]
             value_length == kd[key][2]
             value == ReadValue(old, value_offset, value_length)
         IN IF ~value.ok THEN [ok |-> FALSE, file |-> new]
            ELSE LET a == AppendEntry(new, key, Some(value.v))
                 IN WriteLoop(old, kd, Tail(keys), a.file,
                              KeyDirInsert(new_kd, key,
                                  <<ValueOffset(a.offset, a.append_length, value_length),
                                    value_length>>))

\* A slip: write_log leaves out set_len(0), the new file keeps what it held.
WriteLogNoSetLen(f, lg, kd, path) ==
    LET Written(n, w) ==
            LET written == [n.fs EXCEPT !.data[n.log.ino] = w.file]
            IN IF ~w.ok THEN [ok |-> FALSE, fs |-> CloseFile(written, n.log.ino)]
               ELSE [ok |-> TRUE, fs |-> written, log |-> n.log, key_dir |-> w.key_dir,
                     root |-> DOMAIN w.key_dir # {}]
        Logged(n) ==
            IF ~n.ok THEN [ok |-> FALSE, fs |-> n.fs]
            ELSE Written(n, WriteLoop(n.fs.data[lg.ino], kd, SortedKeys(DOMAIN kd),
                                      n.fs.data[n.log.ino], EmptyKeyDir))
    IN Logged(LogNew(f, {lg.ino}, path))

\* BitCask::write_log: Log::new on the sibling path, set_len(0), the loop.
\* On an error the new log is dropped, which closes and unlocks its file.
\* root: new_key_dir starts as KeyDir::new() and the loop only inserts, so
\* it has a root node exactly when it holds a key.
WriteLog(f, lg, kd, path) ==
    LET Written(n, w) ==
            LET written == [n.fs EXCEPT !.data[n.log.ino] = w.file]
            IN IF ~w.ok THEN [ok |-> FALSE, fs |-> CloseFile(written, n.log.ino)]
               ELSE [ok |-> TRUE, fs |-> written, log |-> n.log, key_dir |-> w.key_dir,
                     root |-> DOMAIN w.key_dir # {}]
        Logged(n) ==
            IF ~n.ok THEN [ok |-> FALSE, fs |-> n.fs]
            ELSE Written(n, WriteLoop(n.fs.data[lg.ino], kd, SortedKeys(DOMAIN kd),
                                      <<>>, EmptyKeyDir))
    IN Logged(LogNew(f, {lg.ino}, path))

\* A slip: the rename is not atomic, the target is unlinked and the source
\* is not yet linked in its place.
RenameUnlinks(f, from, to) == [f EXCEPT !.dir[to] = Absent]

\* A slip: the new file is not renamed over the log path.
RenameNothing(f, from, to) == f

\* std::fs::rename: the target path names the source's inode, the source
\* path is gone; the inode the target named stays open in its handles.
Rename(f, from, to) ==
    IF from = to THEN f
    ELSE [f EXCEPT !.dir = [@ EXCEPT ![to] = f.dir[from], ![from] = Absent]]

\* Inode numbers carry no meaning to the program: the file system and the
\* handle `lg` written with the handle's inode and the first inode exchanged.
Renumber(f, lg) ==
    LET first == CHOOSE i \in Inodes : \A j \in Inodes : i = j \/ InodeBefore(i, j)
        pi == [i \in Inodes |-> IF i = lg.ino THEN first
                                 ELSE IF i = first THEN lg.ino ELSE i]
    IN [fs |-> [dir |-> [p \in Paths |->
                            IF f.dir[p] = Absent THEN Absent ELSE pi[f.dir[p]]],
                data |-> [i \in Inodes |-> f.data[pi[i]]],
                locks |-> {pi[i] : i \in f.locks}],
        log |-> [lg EXCEPT !.ino = first]]

\* BitCask::compact: write_log, rename, then the old log is replaced and
\* dropped, which closes its file.
Compact(f, lg, kd) ==
    LET new_path == SetExtensionNew(lg.path)
        Replaced(r, new_key_dir, new_root) ==
            [ok |-> TRUE, fs |-> r.fs, log |-> r.log, key_dir |-> new_key_dir,
             root |-> new_root]
        Written(w) ==
            IF ~w.ok THEN [ok |-> FALSE, fs |-> w.fs, log |-> lg, key_dir |-> kd]
            ELSE Replaced(Renumber(CloseFile(Rename(w.fs, new_path, lg.path), lg.ino),
                                   [w.log EXCEPT !.path = lg.path]),
                          w.key_dir, w.root)
    IN Written(WriteLog(f, lg, kd, new_path))

(***************************************************************************)
(* Ranges and scans: BTreeMap::range and the two ScanIterators.            *)
(***************************************************************************)
Unbounded == [kind |-> "Unbounded", key |-> <<>>]
Included(k) == [kind |-> "Included", key |-> k]
Excluded(k) == [kind |-> "Excluded", key |-> k]

Bounds(keys) == {Unbounded} \cup {Included(k) : k \in keys} \cup {Excluded(k) : k \in keys}
Ranges(keys) == [start : Bounds(keys), end : Bounds(keys)]
FullRange == [start |-> Unbounded, end |-> Unbounded]

\* BTreeMap::range searches the tree from its root node, and the search
\* panics when the start is above the end, and when both are the same key
\* and both are excluded.  A map without a root node (nothing was ever
\* inserted) is not searched: its range is empty whatever the bounds.
RangePanics(root, r) ==
    /\ root
    /\ r.start.kind # "Unbounded"
    /\ r.end.kind # "Unbounded"
    /\ \/ KeyLess(r.end.key, r.start.key)
       \/ r.start.key = r.end.key /\ r.start.kind = "Excluded" /\ r.end.kind = "Excluded"

InRange(k, r) ==
    /\ CASE r.start.kind = "Included" -> KeyLeq(r.start.key, k)
          [] r.start.kind = "Excluded" -> KeyLess(r.start.key, k)
          [] OTHER -> TRUE
    /\ CASE r.end.kind = "Included" -> KeyLeq(k, r.end.key)
          [] r.end.kind = "Excluded" -> KeyLess(k, r.end.key)
          [] OTHER -> TRUE

\* The keys a btree_map::Range over `keys` holds, front to back.
RangeInner(keys, r) == SortedKeys({k \in keys : InRange(k, r)})

\* bitcask::ScanIterator::map: the key cloned and its value read from the
\* log, or the error of read_value.
BitCaskMap(file, kd, key) ==
    LET v == ReadValue(file, kd[key][1], kd[key][2])
    IN IF v.ok THEN [ok |-> TRUE, item |-> <<key, v.v>>] ELSE [ok |-> FALSE]

\* memory::ScanIterator::map: the pair, cloned.
MemoryMap(m, key) == [ok |-> TRUE, item |-> <<key, m[key]>>]

\* bitcask::ScanIterator::map on each key of `inner` in turn, as collect
\* into a Result does: the pairs, or the first error of read_value.
RECURSIVE CollectLog(_, _, _)
CollectLog(file, kd, inner) ==
    IF inner = <<>> THEN [ok |-> TRUE, items |-> <<>>]
    ELSE LET v == BitCaskMap(file, kd, Head(inner))
         IN IF ~v.ok THEN [ok |-> FALSE]
            ELSE LET rest == CollectLog(file, kd, Tail(inner))
                 IN IF ~rest.ok THEN rest
                    ELSE [ok |-> TRUE, items |-> <<v.item>> \o rest.items]

\* BitCask::scan(range) collected.
BitCaskScan(file, kd, root, r) ==
    IF RangePanics(root, r) THEN [panic |-> TRUE]
    ELSE [panic |-> FALSE, result |-> CollectLog(file, kd, RangeInner(DOMAIN kd, r))]

\* memory::ScanIterator::map on each key of `inner` in turn.
RECURSIVE CollectMemory(_, _)
CollectMemory(m, inner) ==
    IF inner = <<>> THEN <<>>
    ELSE <<MemoryMap(m, Head(inner)).item>> \o CollectMemory(m, Tail(inner))

\* Memory::scan(range) collected.
MemoryScan(m, root, r) ==
    IF RangePanics(root, r) THEN [panic |-> TRUE]
    ELSE [panic |-> FALSE,
          result |-> [ok |-> TRUE, items |-> CollectMemory(m, RangeInner(DOMAIN m, r))]]

\* BitCask::get and Memory::get
BitCaskGet(file, kd, key) ==
    IF key \in DOMAIN kd
    THEN LET v == ReadValue(file, kd[key][1], kd[key][2])
         IN IF v.ok THEN [ok |-> TRUE, v |-> Some(v.v)] ELSE [ok |-> FALSE]
    ELSE [ok |-> TRUE, v |-> None]

\* A slip: get() reads the log at offset 0 for a key the KeyDir lacks.
GetReadsAlways(kd, key) ==
    IF key \in DOMAIN kd THEN <<kd[key]>> ELSE <<<<0, 0>>>>

\* The read_value calls that BitCask::get makes, as (value_offset,
\* value_length) pairs: one for a key of the KeyDir, none for any other.
GetReads(kd, key) ==
    IF key \in DOMAIN kd THEN <<kd[key]>> ELSE <<>>

MemoryGet(m, key) ==
    [ok |-> TRUE, v |-> IF key \in DOMAIN m THEN Some(m[key]) ELSE None]

EmptyMemory == [k \in {} |-> <<>>]

RECURSIVE MemorySizeFold(_, _)
MemorySizeFold(m, keys) ==
    IF keys = {} THEN 0
    ELSE LET k == CHOOSE x \in keys : TRUE
         IN Len(k) + Len(m[k]) + MemorySizeFold(m, keys \ {k})

\* Memory::status
MemoryStatus(m) ==
    [name |-> "memory", key_count |-> Cardinality(DOMAIN m),
     size |-> MemorySizeFold(m, DOMAIN m),
     total_disk_size |-> 0, live_disk_size |-> 0, garbage_disk_size |-> 0]

(***************************************************************************)
(* The ScanIterators as iterators.  `inner` is the keys the btree_map::Range *)
(* still holds, front to back; a step gives the item returned and the      *)
(* iterator left.                                                          *)
(***************************************************************************)
\* inner.next(): the front key is taken.
RangeNext(inner) ==
    IF inner = <<>> THEN [key |-> None, inner |-> inner]
    ELSE [key |-> Some(Head(inner)), inner |-> Tail(inner)]

\* A slip: next_back takes the front key.
RangeNextBackFromFront(inner) == RangeNext(inner)

\* inner.next_back(): the back key is taken.
RangeNextBack(inner) ==
    IF inner = <<>> THEN [key |-> None, inner |-> inner]
    ELSE [key |-> Some(inner[Len(inner)]), inner |-> SubSeq(inner, 1, Len(inner) - 1)]

\* Option::map of the ScanIterator's map over what the range gave.
BitCaskItem(file, kd, key) ==
    IF key.some THEN Some(BitCaskMap(file, kd, key.v)) ELSE None

MemoryItem(m, key) == IF key.some THEN Some(MemoryMap(m, key.v)) ELSE None

(***************************************************************************)
(* Engine::scan_prefix (the trait's default method).                       *)
(***************************************************************************)
\* prefix.iter().rposition(|b| *b != 0xff): the last index (from 1) of a
\* byte that is not 0xff, or 0 for None.
RPosition(prefix) ==
    LET I == {i \in 1..Len(prefix) : prefix[i] # 255}
    IN IF I = {} THEN 0 ELSE CHOOSE i \in I : \A j \in I : j <= i

\* A slip: the last byte is incremented without the trailing 0xff bytes
\* being stripped, so 0xff wraps to 0.
PrefixRangeLastByte(prefix) ==
    [start |-> Included(prefix),
     end |-> IF prefix = <<>> THEN Unbounded
             ELSE Excluded(SubSeq(prefix, 1, Len(prefix) - 1)
                           \o <<(prefix[Len(prefix)] + 1) % 256>>)]

\* The range scan_prefix passes to scan.
PrefixRange(prefix) ==
    LET i == RPosition(prefix)
    IN [start |-> Included(prefix),
        end |-> IF i = 0 THEN Unbounded
                ELSE Excluded(SubSeq(prefix, 1, i - 1) \o <<(prefix[i] + 1) % 256>>)]

(***************************************************************************)
(* What a log file says, read off the entry format alone: 4 bytes of key   *)
(* length, 4 bytes of value length (-1 for a tombstone), the key, the      *)
(* value.  The properties below compare the engine with it.                *)
(***************************************************************************)
\* The complete entries at the start of `file`, in file order.
RECURSIVE EntriesFrom(_, _)
EntriesFrom(file, start) ==
    IF start + 8 > Len(file) THEN <<>>
    ELSE LET k == U32FromBe(SubSeq(file, start + 1, start + 4))
             v == I32FromBe(SubSeq(file, start + 5, start + 8))
             end == start + 8 + k + (IF v >= 0 THEN v ELSE 0)
         IN IF end > Len(file) THEN <<>>
            ELSE << [put |-> v >= 0,
                     key |-> SubSeq(file, start + 9, start + 8 + k),
                     value |-> SubSeq(file, start + 9 + k, end),
                     start |-> start,
                     end |-> end] >> \o EntriesFrom(file, end)

Entries(file) == EntriesFrom(file, 0)

\* The file is a concatenation of complete entries.
WellFormed(file) ==
    LET es == Entries(file)
    IN IF es = <<>> THEN file = <<>> ELSE es[Len(es)].end = Len(file)

\* The index of the last entry of `es` for `key`, or 0.
LastIndex(es, key) ==
    LET I == {i \in 1..Len(es) : es[i].key = key}
    IN IF I = {} THEN 0 ELSE CHOOSE i \in I : \A j \in I : j <= i

\* The keys whose last entry is a Put, and the entry.
LiveKeys(es) ==
    {es[i].key : i \in {j \in 1..Len(es) : LastIndex(es, es[j].key) = j /\ es[j].put}}

LiveEntry(es, key) == es[LastIndex(es, key)]

\* The (key, value) pairs of the live keys, in ascending key order.
RECURSIVE PairsOf(_, _)
PairsOf(es, keys) ==
    IF keys = <<>> THEN <<>>
    ELSE << <<Head(keys), LiveEntry(es, Head(keys)).value>> >> \o PairsOf(es, Tail(keys))

LivePairs(es) == PairsOf(es, SortedKeys(LiveKeys(es)))

\* The bytes of the file that the live keys' last Put entries occupy.
RECURSIVE LiveBytes(_, _)
LiveBytes(es, keys) ==
    IF keys = {} THEN 0
    ELSE LET k == CHOOSE x \in keys : TRUE
         IN (LiveEntry(es, k).end - LiveEntry(es, k).start) + LiveBytes(es, keys \ {k})

\* The entries of `file` that end at or before t.
PrefixEntries(file, t) == SelectSeq(Entries(file), LAMBDA e : e.end <= t)

(***************************************************************************)
(* The state machine.                                                      *)
(***************************************************************************)
\* The contents of the file the engine's log handle is open on.
LogFile == fs.data[log.ino]

\* The inodes the engine's handles hold open.
Held == IF log.open THEN {log.ino} ELSE {}

Idle == log.open /\ ~iter.open

Init ==
    /\ fs = [dir |-> [p \in Paths |-> Absent],
             data |-> [i \in Inodes |-> <<>>],
             locks |-> {}]
    /\ log = NoLog
    /\ key_dir = EmptyKeyDir
    /\ key_dir_root = FALSE
    /\ mem = EmptyMemory
    /\ mem_root = FALSE
    /\ iter = NoIter
    /\ ret = NoRet
    /\ saved = None
    /\ orig = None
    /\ compacting = NoCompact
    /\ synced = 0
    /\ promised = None
    /\ opening = NoOpening

\* BitCask::new(path) while no engine exists.  saved and orig: what the
\* file held before, for the comparison with what the handle now gives.
Open ==
    /\ ~log.open
    /\ LET Opened(n) ==
               /\ fs' = n.fs
               /\ log' = IF n.ok THEN n.log ELSE log
               /\ key_dir' = IF n.ok THEN n.key_dir ELSE key_dir
               /\ key_dir_root' = IF n.ok THEN n.root ELSE key_dir_root
               /\ ret' = [op |-> "open", ok |-> n.ok, saved |-> saved, orig |-> orig]
       IN Opened(BitCaskNew(fs, Held, LogPath))
    /\ saved' = None
    /\ orig' = None
    /\ UNCHANGED <<mem, mem_root, iter>>

\* tests::setup: BitCask::new on a path in a new temporary directory.  The
\* TempDir is dropped when setup returns, which removes the directory with
\* the file in it: the engine is left with an open, locked file that no
\* path names, and no file is at the log path.
Setup ==
    /\ ~log.open
    /\ \A p \in Paths : fs.dir[p] = Absent
    /\ LET Removed(n) ==
               /\ fs' = [n.fs EXCEPT !.dir = [p \in Paths |-> Absent]]
               /\ log' = n.log
               /\ key_dir' = n.key_dir
               /\ key_dir_root' = n.root
               /\ ret' = [op |-> "open", ok |-> n.ok, saved |-> saved, orig |-> orig]
       IN Removed(BitCaskNew(fs, Held, LogPath))
    /\ saved' = None
    /\ orig' = None
    /\ UNCHANGED <<mem, mem_root, iter>>

\* BitCask::set.
BitCaskSet(key, value) ==
    /\ Idle
    /\ LET a == AppendEntry(LogFile, key, Some(value))
           value_length == Len(value)
       IN /\ fs' = [fs EXCEPT !.data[log.ino] = a.file]
          /\ key_dir' = KeyDirInsert(key_dir, key,
                            <<ValueOffset(a.offset, a.append_length, value_length),
                              value_length>>)
          /\ key_dir_root' = TRUE
    /\ ret' = [op |-> "set", key |-> key, value |-> value, ok |-> TRUE]
    /\ UNCHANGED <<log, iter, saved, orig>>

\* Memory::set: the insert gives the map a root node when it has none.
MemorySet(key, value) ==
    /\ mem' = [k \in (DOMAIN mem) \cup {key} |-> IF k = key THEN value ELSE mem[k]]
    /\ mem_root' = TRUE

\* set called with the same arguments on both engines.
Set(key, value) == BitCaskSet(key, value) /\ MemorySet(key, value)

\* BitCask::delete.
BitCaskDelete(key) ==
    /\ Idle
    /\ LET a == AppendEntry(LogFile, key, None)
       IN /\ fs' = [fs EXCEPT !.data[log.ino] = a.file]
          /\ key_dir' = KeyDirRemove(key_dir, key)
          /\ key_dir_root' = key_dir_root
    /\ ret' = [op |-> "delete", key |-> key, ok |-> TRUE]
    /\ UNCHANGED <<log, iter, saved, orig>>

\* Memory::delete: the remove keeps the root node, also when it takes the
\* last key.
MemoryDelete(key) ==
    /\ mem' = [k \in (DOMAIN mem) \ {key} |-> mem[k]]
    /\ mem_root' = mem_root

\* delete called with the same key on both engines.
Delete(key) == BitCaskDelete(key) /\ MemoryDelete(key)

\* BitCask::get and Memory::get, called with the same key.
Get(key) ==
    /\ Idle
    /\ ret' = [op |-> "get", key |-> key,
               bitcask |-> BitCaskGet(LogFile, key_dir, key),
               memory |-> MemoryGet(mem, key)]
    /\ UNCHANGED <<fs, log, key_dir, key_dir_root, mem, mem_root, iter, saved, orig>>

\* scan(range).collect() on both engines.
Scan(range) ==
    /\ Idle
    /\ ret' = [op |-> "scan",
               bitcask |-> BitCaskScan(LogFile, key_dir, key_dir_root, range),
               memory |-> MemoryScan(mem, mem_root, range)]
    /\ UNCHANGED <<fs, log, key_dir, key_dir_root, mem, mem_root, iter, saved, orig>>

\* BitCask::status and Memory::status.
GetStatus ==
    /\ Idle
    /\ ret' = [op |-> "status",
               bitcask |-> Status(key_dir, LogFile),
               memory |-> MemoryStatus(mem)]
    /\ UNCHANGED <<fs, log, key_dir, key_dir_root, mem, mem_root, iter, saved, orig>>

\* BitCask::flush (File::sync_all) and Memory::flush.
Flush ==
    /\ Idle
    /\ ret' = [op |-> "flush", ok |-> TRUE]
    /\ UNCHANGED <<fs, log, key_dir, key_dir_root, mem, mem_root, iter, saved, orig>>

\* BitCask::compact.  before: scan(..) and the status the handle gave
\* just before the call.
DoCompact ==
    /\ Idle
    /\ LET Compacted(c) ==
               /\ fs' = c.fs
               /\ log' = c.log
               /\ key_dir' = c.key_dir
               /\ key_dir_root' = IF c.ok THEN c.root ELSE key_dir_root
               /\ ret' = [op |-> "compact", ok |-> c.ok,
                          before |-> [scan |-> BitCaskScan(LogFile, key_dir, key_dir_root, FullRange),
                                      status |-> Status(key_dir, LogFile)]]
       IN Compacted(Compact(fs, log, key_dir))
    /\ UNCHANGED <<mem, mem_root, iter, saved, orig>>

\* Drop for BitCask: flush, then the log's file is closed, which unlocks it.
DropEngine ==
    /\ Idle
    /\ saved' = Some(BitCaskScan(LogFile, key_dir, key_dir_root, FullRange))
    /\ fs' = CloseFile(fs, log.ino)
    /\ log' = NoLog
    /\ key_dir' = EmptyKeyDir
    /\ key_dir_root' = FALSE
    /\ ret' = [op |-> "drop"]
    /\ UNCHANGED <<mem, mem_root, iter, orig>>

\* A further BitCask::new(path) while the engine is open, by this or
\* another process; a handle it obtained is dropped at once.
\* before: the contents of the file at the log path before the attempt, or
\* None when no file was there.
OpenSecond ==
    /\ log.open
    /\ LET Tried(n) ==
               /\ fs' = IF n.ok THEN CloseFile(n.fs, n.log.ino) ELSE n.fs
               /\ ret' = [op |-> "open2", ok |-> n.ok,
                          before |-> IF fs.dir[LogPath] = Absent THEN None
                                     ELSE Some(fs.data[fs.dir[LogPath]])]
       IN Tried(BitCaskNew(fs, Held, LogPath))
    /\ UNCHANGED <<log, key_dir, key_dir_root, mem, mem_root, iter, saved, orig>>

\* A slip: > for >=.
GarbageRatioGt(garbage, total, threshold) ==
    IF total = 0 THEN FALSE
    ELSE garbage * threshold[2] > threshold[1] * total

\* status.garbage_disk_size as f64 / status.total_disk_size as f64 >= threshold.
\* 0 / 0 is NaN, which compares false.
GarbageRatioGeq(garbage, total, threshold) ==
    IF total = 0 THEN FALSE
    ELSE garbage * threshold[2] >= threshold[1] * total

\* BitCask::new_compact(path, threshold) while no engine exists.
\* opened: the file and the status as BitCask::new left them.
NewCompact(threshold) ==
    /\ ~log.open
    /\ LET Compacted(n, r, c) ==
               IF c.ok
               THEN /\ fs' = c.fs
                    /\ log' = c.log
                    /\ key_dir' = c.key_dir
                    /\ key_dir_root' = c.root
                    /\ ret' = r @@ [ok |-> TRUE]
               ELSE /\ fs' = CloseFile(c.fs, n.log.ino)
                    /\ ret' = r @@ [ok |-> FALSE]
                    /\ UNCHANGED <<log, key_dir, key_dir_root>>
           Checked(n, status) ==
               LET r == [op |-> "new_compact", threshold |-> threshold,
                         opened |-> [file |-> n.fs.data[n.log.ino], status |-> status]]
               IN IF status.underflow
                  THEN /\ fs' = CloseFile(n.fs, n.log.ino)
                       /\ ret' = [r EXCEPT !.op = "new_compact_panic"]
                       /\ UNCHANGED <<log, key_dir, key_dir_root>>
                  ELSE IF /\ status.garbage_disk_size > 0
                          /\ GarbageRatioGeq(status.garbage_disk_size,
                                             status.total_disk_size, threshold)
                  THEN Compacted(n, r, Compact(n.fs, n.log, n.key_dir))
                  ELSE /\ fs' = n.fs
                       /\ log' = n.log
                       /\ key_dir' = n.key_dir
                       /\ key_dir_root' = n.root
                       /\ ret' = r @@ [ok |-> TRUE]
           Opened(n) ==
               IF ~n.ok
               THEN /\ fs' = n.fs
                    /\ ret' = [op |-> "new_compact", threshold |-> threshold, ok |-> FALSE]
                    /\ UNCHANGED <<log, key_dir, key_dir_root>>
               ELSE Checked(n, Status(n.key_dir, n.fs.data[n.log.ino]))
       IN Opened(BitCaskNew(fs, Held, LogPath))
    /\ saved' = None
    /\ orig' = None
    /\ UNCHANGED <<mem, mem_root, iter>>

\* The process stops while it appends, or the file is cut on purpose: the
\* log file, made of complete entries, is left with its first t bytes.
\* orig: t, and of the entries of the file that end at or before t, their
\* number and the pairs that replaying them gives.
Truncate ==
    /\ ~log.open
    /\ fs.dir[LogPath] # Absent
    /\ LET file == fs.data[fs.dir[LogPath]]
       IN /\ WellFormed(file)
          /\ \E t \in 0..Len(file) :
                /\ fs' = [fs EXCEPT !.data[fs.dir[LogPath]] = SubSeq(file, 1, t)]
                /\ orig' = Some([t |-> t,
                                  entries |-> Len(PrefixEntries(file, t)),
                                  replay |-> LivePairs(PrefixEntries(file, t))])
    /\ saved' = None
    /\ ret' = [op |-> "truncate"]
    /\ UNCHANGED <<log, key_dir, key_dir_root, mem, mem_root, iter>>

\* set and delete are called while the log holds fewer than `max` entries.
CanAppend(max) == log.open /\ EntryCount(LogFile) < max

Next ==
    \/ Open /\ UNCHANGED cvars
    \/ \E th \in Thresholds : NewCompact(th) /\ UNCHANGED cvars
    \/ CanAppend(MaxEntries) /\ \E k \in Keys, v \in Values : Set(k, v) /\ UNCHANGED cvars
    \/ CanAppend(MaxEntries) /\ \E k \in Keys : Delete(k) /\ UNCHANGED cvars
    \/ \E k \in Keys : Get(k) /\ UNCHANGED cvars
    \/ \E r \in Ranges(BoundKeys) : Scan(r) /\ UNCHANGED cvars
    \/ GetStatus /\ UNCHANGED cvars
    \/ Flush /\ UNCHANGED cvars
    \/ DoCompact /\ UNCHANGED cvars
    \/ DropEngine /\ UNCHANGED cvars
    \/ OpenSecond /\ UNCHANGED cvars

Spec == Init /\ [][Next]_vars

\* A fresh BitCask engine and a fresh Memory engine given the same set,
\* delete, get and scan calls, and no other: both maps get their root node
\* in the same call.
NextFresh ==
    \/ Open /\ UNCHANGED cvars
    \/ CanAppend(MaxEntries) /\ \E k \in Keys, v \in Values : Set(k, v) /\ UNCHANGED cvars
    \/ CanAppend(MaxEntries) /\ \E k \in Keys : Delete(k) /\ UNCHANGED cvars
    \/ \E k \in Keys : Get(k) /\ UNCHANGED cvars
    \/ \E r \in Ranges(BoundKeys) : Scan(r) /\ UNCHANGED cvars

SpecFresh == Init /\ [][NextFresh]_vars

\* The engine that tests::setup gives, under the calls of the Engine trait,
\* compact and drop, and the opens that show that its file is at no path.
NextSetup ==
    \/ Setup /\ UNCHANGED cvars
    \/ Open /\ UNCHANGED cvars
    \/ CanAppend(MaxEntries) /\ \E k \in StepKeys, v \in Values : Set(k, v) /\ UNCHANGED cvars
    \/ CanAppend(MaxEntries) /\ \E k \in DeletedKeys : Delete(k) /\ UNCHANGED cvars
    \/ \E k \in StepKeys : Get(k) /\ UNCHANGED cvars
    \/ Scan(FullRange) /\ UNCHANGED cvars
    \/ GetStatus /\ UNCHANGED cvars
    \/ Flush /\ UNCHANGED cvars
    \/ DoCompact /\ UNCHANGED cvars
    \/ DropEngine /\ UNCHANGED cvars
    \/ OpenSecond /\ UNCHANGED cvars

SpecSetup == Init /\ [][NextSetup]_vars

\* The BitCask engine alone: open, set, delete, compact and drop, and the
\* file cut while it is closed.
NextRecover ==
    \/ Open /\ UNCHANGED cvars
    \/ /\ CanAppend(MaxEntries)
       /\ \E k \in Keys, v \in Values : BitCaskSet(k, v)
       /\ UNCHANGED <<mem, mem_root>>
       /\ UNCHANGED cvars
    \/ /\ CanAppend(MaxEntries)
       /\ \E k \in Keys : BitCaskDelete(k)
       /\ UNCHANGED <<mem, mem_root>>
       /\ UNCHANGED cvars
    \/ DoCompact /\ UNCHANGED cvars
    \/ DropEngine /\ UNCHANGED cvars
    \/ Truncate /\ UNCHANGED cvars

SpecRecover == Init /\ [][NextRecover]_vars

\* The BitCask engine alone as above, and the calls that only read.
NextAppend ==
    \/ NextRecover
    \/ \E k \in Keys : Get(k) /\ UNCHANGED cvars
    \/ Scan(FullRange) /\ UNCHANGED cvars
    \/ GetStatus /\ UNCHANGED cvars
    \/ Flush /\ UNCHANGED cvars

SpecAppend == Init /\ [][NextAppend]_vars

\* scan_prefix(prefix).collect() on both engines.
ScanPrefix(prefix) ==
    /\ Idle
    /\ ret' = [op |-> "scan_prefix", prefix |-> prefix,
               bitcask |-> BitCaskScan(LogFile, key_dir, key_dir_root, PrefixRange(prefix)),
               memory |-> MemoryScan(mem, mem_root, PrefixRange(prefix))]
    /\ UNCHANGED <<fs, log, key_dir, key_dir_root, mem, mem_root, iter, saved, orig>>

\* scan(range) on both engines, the iterators kept.  front and back: the
\* items next and next_back have returned so far, in the order returned.
\* When the range call of either engine panics no iterator is kept;
\* bitcask and memory: which of the two calls panics.
ScanIter(range) ==
    /\ Idle
    /\ IF RangePanics(key_dir_root, range) \/ RangePanics(mem_root, range)
       THEN /\ ret' = [op |-> "scan_panic", range |-> range,
                       bitcask |-> RangePanics(key_dir_root, range),
                       memory |-> RangePanics(mem_root, range)]
            /\ UNCHANGED iter
       ELSE /\ ret' = [op |-> "scan_iter", range |-> range]
            /\ iter' = [open |-> TRUE, range |-> range,
                        bitcask |-> [inner |-> RangeInner(DOMAIN key_dir, range),
                                     front |-> <<>>, back |-> <<>>],
                        memory |-> [inner |-> RangeInner(DOMAIN mem, range),
                                    front |-> <<>>, back |-> <<>>]]
    /\ UNCHANGED <<fs, log, key_dir, key_dir_root, mem, mem_root, saved, orig>>

\* The iterator `it` after a call that took `r` from its range and
\* returned `item`.
Stepped(it, r, item, end) ==
    [inner |-> r.inner,
     front |-> IF item.some /\ end = "front" THEN Append(it.front, item.v) ELSE it.front,
     back |-> IF item.some /\ end = "back" THEN Append(it.back, item.v) ELSE it.back]

\* next() on both iterators.
IterNext ==
    /\ iter.open
    /\ LET b == RangeNext(iter.bitcask.inner)
           m == RangeNext(iter.memory.inner)
           bi == BitCaskItem(LogFile, key_dir, b.key)
           mi == MemoryItem(mem, m.key)
       IN /\ iter' = [iter EXCEPT !.bitcask = Stepped(@, b, bi, "front"),
                                  !.memory = Stepped(@, m, mi, "front")]
          /\ ret' = [op |-> "next", bitcask |-> bi, memory |-> mi]
    /\ UNCHANGED <<fs, log, key_dir, key_dir_root, mem, mem_root, saved, orig>>

\* next_back() on both iterators.
IterNextBack ==
    /\ iter.open
    /\ LET b == RangeNextBack(iter.bitcask.inner)
           m == RangeNextBack(iter.memory.inner)
           bi == BitCaskItem(LogFile, key_dir, b.key)
           mi == MemoryItem(mem, m.key)
       IN /\ iter' = [iter EXCEPT !.bitcask = Stepped(@, b, bi, "back"),
                                  !.memory = Stepped(@, m, mi, "back")]
          /\ ret' = [op |-> "next_back", bitcask |-> bi, memory |-> mi]
    /\ UNCHANGED <<fs, log, key_dir, key_dir_root, mem, mem_root, saved, orig>>

\* The iterators are dropped, which ends their borrow of the engines.
IterDrop ==
    /\ iter.open
    /\ iter' = NoIter
    /\ ret' = [op |-> "iter_drop"]
    /\ UNCHANGED <<fs, log, key_dir, key_dir_root, mem, mem_root, saved, orig>>

\* Both engines filled in step, then prefix scans and scan iterators.
NextScan ==
    \/ Open /\ UNCHANGED cvars
    \/ CanAppend(MaxScanEntries) /\ \E k \in ScanKeys, v \in ScanValues : Set(k, v) /\ UNCHANGED cvars
    \/ CanAppend(MaxScanEntries) /\ \E k \in DeletedKeys : Delete(k) /\ UNCHANGED cvars
    \/ \E p \in Prefixes : ScanPrefix(p) /\ UNCHANGED cvars
    \/ \E r \in Ranges(IterBoundKeys) : ScanIter(r) /\ UNCHANGED cvars
    \/ IterNext /\ UNCHANGED cvars
    \/ IterNextBack /\ UNCHANGED cvars
    \/ IterDrop /\ UNCHANGED cvars

SpecScan == Init /\ [][NextScan]_vars

\* The scans as above, and the other calls that only read.
NextRead ==
    \/ NextScan
    \/ \E k \in ScanKeys : Get(k) /\ UNCHANGED cvars
    \/ Scan(FullRange) /\ UNCHANGED cvars
    \/ GetStatus /\ UNCHANGED cvars
    \/ Flush /\ UNCHANGED cvars

SpecRead == Init /\ [][NextRead]_vars

\* scan(..) of the open handle, collected.
ScanAll == BitCaskScan(LogFile, key_dir, key_dir_root, FullRange)

\* A scan that returned these pairs without an error.
Scanned(items) == [panic |-> FALSE, result |-> [ok |-> TRUE, items |-> items]]

(***************************************************************************)
(* Durability: sync_all and the crash of the machine.  synced is the       *)
(* length of the prefix of the log path's file that a sync_all has         *)
(* covered; the file that compact() writes and renames is never synced.    *)
(* promised holds the scan(..) of the last flush and the scan(..) after    *)
(* each later set or delete: what a reopen after a crash may show.         *)
(***************************************************************************)

\* scan(..) of the handle in the next state.
ScanAllNext == BitCaskScan(fs'.data[log'.ino], key_dir', key_dir_root', FullRange)

\* BitCask::set and BitCask::delete: the bytes stay in the page cache.
SetUnsynced(key, value) ==
    /\ BitCaskSet(key, value)
    /\ promised' = IF promised.some THEN Some(promised.v \cup {ScanAllNext}) ELSE None
    /\ UNCHANGED <<mem, mem_root, compacting, opening, synced>>

DeleteUnsynced(key) ==
    /\ BitCaskDelete(key)
    /\ promised' = IF promised.some THEN Some(promised.v \cup {ScanAllNext}) ELSE None
    /\ UNCHANGED <<mem, mem_root, compacting, opening, synced>>

\* BitCask::flush: sync_all on the log's file.
FlushSync ==
    /\ Flush
    /\ synced' = Len(LogFile)
    /\ promised' = Some({ScanAll})
    /\ UNCHANGED <<compacting, opening>>

\* BitCask::compact: the new file is written, flushed to the operating
\* system and renamed; no sync_all is called on it.
CompactUnsynced ==
    /\ DoCompact
    /\ synced' = IF ret'.ok THEN 0 ELSE synced
    /\ UNCHANGED <<compacting, opening, promised>>

\* Drop for BitCask calls flush() before the file is closed.
DropSync ==
    /\ DropEngine
    /\ synced' = Len(LogFile)
    /\ promised' = Some({ScanAll})
    /\ UNCHANGED <<compacting, opening>>

\* The machine crashes while the engine is open: of the log path's file,
\* the synced prefix stays and any of the bytes after it may be lost.
Crash ==
    /\ log.open
    /\ fs.dir[LogPath] = log.ino
    /\ \E t \in synced..Len(LogFile) :
          /\ fs' = CloseFile([fs EXCEPT !.data[log.ino] = SubSeq(LogFile, 1, t)], log.ino)
          /\ synced' = t
    /\ log' = NoLog
    /\ key_dir' = EmptyKeyDir
    /\ key_dir_root' = FALSE
    /\ iter' = NoIter
    /\ saved' = None
    /\ orig' = None
    /\ ret' = [op |-> "crash"]
    /\ UNCHANGED <<mem, mem_root, compacting, opening, promised>>

\* BitCask::new(path) on what the crash or the drop left; build_key_dir may
\* cut an incomplete tail.
OpenAfter ==
    /\ Open
    /\ synced' = IF synced < Len(fs'.data[fs'.dir[LogPath]])
                 THEN synced ELSE Len(fs'.data[fs'.dir[LogPath]])
    /\ promised' = None
    /\ UNCHANGED <<compacting, opening>>

\* set and delete are called while the handle has shown at most MaxUnsynced
\* scan(..) results since the last flush.
CanPromise == promised.some => Cardinality(promised.v) <= MaxUnsynced

NextDurable ==
    \/ OpenAfter
    \/ CanAppend(MaxEntries) /\ CanPromise /\ \E k \in Keys, v \in Values : SetUnsynced(k, v)
    \/ CanAppend(MaxEntries) /\ CanPromise /\ \E k \in Keys : DeleteUnsynced(k)
    \/ FlushSync
    \/ CompactUnsynced
    \/ DropSync
    \/ Crash

SpecDurable == Init /\ [][NextDurable]_vars

(***************************************************************************)
(* compact() step by step: Log::new on the sibling path, set_len(0), one   *)
(* entry per turn of the loop of write_log, rename, and the assignment     *)
(* that replaces (and drops) the old log.  Between two steps the process   *)
(* may stop.  Another process may call BitCask::new on the log path and    *)
(* drop the engine it got, each of its system calls a step of its own.     *)
(***************************************************************************)

\* No compact() call is under way.
Quiet == compacting.pc = "none"

\* The inodes that the engine's open handles hold.
HeldAll == Held \cup (IF Quiet THEN {} ELSE {compacting.new_log.ino})

\* The inode that another process holds open, from the open of its Log::new
\* to the close of its file.
OtherHeld == IF opening.pc = "none" THEN {} ELSE {opening.ino}

\* A handle on `ino` is closed while the handles of `others` stay open: the
\* lock the handle held is released (flock locks belong to the open file
\* description), and the inode is freed only when no other handle holds it.
CloseHeld(f, ino, others) ==
    IF ino \in others THEN [f EXCEPT !.locks = @ \ {ino}] ELSE CloseFile(f, ino)

\* The name that Renumber gives inode `i` when the handle `lg` takes the
\* first one.
RenumberInode(i, lg) ==
    LET first == CHOOSE x \in Inodes : \A j \in Inodes : x = j \/ InodeBefore(x, j)
    IN IF i = lg.ino THEN first ELSE IF i = first THEN lg.ino ELSE i

\* compact() fails: new_log, if it exists, is dropped; the handle stays.
CompactFailed(f) ==
    /\ fs' = f
    /\ compacting' = NoCompact
    /\ ret' = [op |-> "compact", ok |-> FALSE,
               before |-> [scan |-> compacting.before, status |-> compacting.status]]

\* write_log: Log::new(path) on the sibling path.
CompactBegin ==
    /\ Idle
    /\ Quiet
    /\ LET Began(n, scan, status) ==
               /\ fs' = n.fs
               /\ IF n.ok
                  THEN /\ compacting' = [pc |-> "created",
                                         new_log |-> n.log,
                                         new_key_dir |-> EmptyKeyDir,
                                         keys |-> SortedKeys(DOMAIN key_dir),
                                         before |-> scan,
                                         status |-> status,
                                         old |-> LogFile]
                       /\ ret' = [op |-> "compact_step", pc |-> "created"]
                  ELSE /\ compacting' = NoCompact
                       /\ ret' = [op |-> "compact", ok |-> FALSE,
                                  before |-> [scan |-> scan, status |-> status]]
       IN Began(LogNew(fs, Held \cup OtherHeld, SetExtensionNew(log.path)), ScanAll,
                Status(key_dir, LogFile))
    /\ UNCHANGED <<log, key_dir, key_dir_root, mem, mem_root, iter, saved, orig, synced, opening, promised>>

\* write_log: new_log.file.set_len(0).
CompactSetLen ==
    /\ compacting.pc = "created"
    /\ fs' = [fs EXCEPT !.data[compacting.new_log.ino] = <<>>]
    /\ compacting' = [compacting EXCEPT !.pc = "writing"]
    /\ ret' = [op |-> "compact_step", pc |-> "writing"]
    /\ UNCHANGED <<log, key_dir, key_dir_root, mem, mem_root, iter, saved, orig, synced, opening, promised>>

\* One turn of the loop of write_log: read_value on the old log,
\* append_entry on the new one, insert into the new KeyDir.
CompactEntry ==
    /\ compacting.pc = "writing"
    /\ compacting.keys # <<>>
    /\ LET key == Head(compacting.keys)
           value_offset == key_dir[key][1]
           value_length == key_dir[key][2]
           new_ino == compacting.new_log.ino
           Appended(a) ==
               /\ fs' = [fs EXCEPT !.data[new_ino] = a.file]
               /\ compacting' = [compacting EXCEPT
                      !.keys = Tail(@),
                      !.new_key_dir = KeyDirInsert(@, key,
                          <<ValueOffset(a.offset, a.append_length, value_length),
                            value_length>>)]
               /\ ret' = [op |-> "compact_step", pc |-> "writing"]
           Read(value) ==
               IF ~value.ok THEN CompactFailed(CloseFile(fs, new_ino))
               ELSE Appended(AppendEntry(fs.data[new_ino], key, Some(value.v)))
       IN Read(ReadValue(LogFile, value_offset, value_length))
    /\ UNCHANGED <<log, key_dir, key_dir_root, mem, mem_root, iter, saved, orig, synced, opening, promised>>

\* compact: std::fs::rename(&new_log.path, &self.log.path).  The log path
\* now names the new file, on which no sync_all was called.
CompactRename ==
    /\ compacting.pc = "writing"
    /\ compacting.keys = <<>>
    /\ fs' = Rename(fs, compacting.new_log.path, log.path)
    /\ compacting' = [compacting EXCEPT !.pc = "renamed"]
    /\ ret' = [op |-> "compact_step", pc |-> "renamed"]
    /\ synced' = 0
    /\ UNCHANGED <<log, key_dir, key_dir_root, mem, mem_root, iter, saved, orig, opening, promised>>

\* compact: self.log = new_log drops the old log, which closes its file and
\* releases its lock; self.key_dir = new_key_dir.
CompactReplace ==
    /\ compacting.pc = "renamed"
    /\ LET Replaced(r) ==
               /\ fs' = r.fs
               /\ log' = r.log
       IN Replaced(Renumber(CloseHeld(fs, log.ino, OtherHeld),
                            [compacting.new_log EXCEPT !.path = log.path]))
    /\ key_dir' = compacting.new_key_dir
    /\ key_dir_root' = (DOMAIN compacting.new_key_dir # {})
    /\ compacting' = NoCompact
    /\ opening' = IF opening.pc # "none"
                  THEN [opening EXCEPT !.ino = RenumberInode(@, compacting.new_log)]
                  ELSE opening
    /\ ret' = [op |-> "compact", ok |-> TRUE,
               before |-> [scan |-> compacting.before, status |-> compacting.status]]
    /\ UNCHANGED <<mem, mem_root, iter, saved, orig, synced, promised>>

\* The bytes of the entry that the loop of write_log appends next.
NextEntryBytes ==
    LET key == Head(compacting.keys)
        value == ReadValue(LogFile, key_dir[key][1], key_dir[key][2])
    IN IF value.ok
       THEN LET a == AppendEntry(<<>>, key, Some(value.v)) IN a.file
       ELSE <<>>

\* The process stops (it is killed, or it panics) between two steps of
\* compact(), within an append to the new file, or outside compact(): its
\* handles are closed and no Drop runs.  What it wrote stays in the files.
\* saved: scan(..) of the handle, as it was before compact() began.
ProcessStop ==
    /\ log.open
    /\ \E n \in 0..(IF /\ compacting.pc = "writing"
                        /\ compacting.keys # <<>>
                        /\ NextEntryBytes # <<>>
                     THEN Len(NextEntryBytes) - 1 ELSE 0) :
          LET written == IF n = 0 THEN fs
                         ELSE [fs EXCEPT !.data[compacting.new_log.ino] =
                                  @ \o SubSeq(NextEntryBytes, 1, n)]
          IN fs' = IF Quiet THEN CloseHeld(written, log.ino, OtherHeld)
                   ELSE CloseHeld(CloseHeld(written, compacting.new_log.ino, OtherHeld),
                                  log.ino, OtherHeld)
    /\ saved' = Some(IF Quiet THEN ScanAll ELSE compacting.before)
    /\ ret' = [op |-> "stop", pc |-> compacting.pc]
    /\ log' = NoLog
    /\ key_dir' = EmptyKeyDir
    /\ key_dir_root' = FALSE
    /\ iter' = NoIter
    /\ orig' = None
    /\ compacting' = NoCompact
    /\ UNCHANGED <<mem, mem_root, synced, opening, promised>>

\* Another process calls BitCask::new on the log path.  Log::new:
\* create_dir_all and OpenOptions::open give a descriptor on the file that
\* the path names now, a new empty file when it names none.
OtherOpen ==
    /\ opening.pc = "none"
    /\ LET ino == IF fs.dir[LogPath] = Absent THEN AllocInode(fs, HeldAll)
                  ELSE fs.dir[LogPath]
       IN /\ fs' = [fs EXCEPT !.dir[LogPath] = ino]
          /\ opening' = [pc |-> "opened", ino |-> ino]
          /\ ret' = [op |-> "open2_step", pc |-> "opened"]
    /\ UNCHANGED <<log, key_dir, key_dir_root, mem, mem_root, iter, saved, orig,
                   compacting, synced, promised>>

\* The other process closes its file: the lock is released when it held
\* one, and an inode that no path names and no handle of the engine holds
\* is freed.
OtherClose(f, ino, locked) ==
    [dir |-> f.dir,
     data |-> IF (\E p \in Paths : f.dir[p] = ino) \/ ino \in HeldAll
              THEN f.data ELSE [f.data EXCEPT ![ino] = <<>>],
     locks |-> IF locked THEN f.locks \ {ino} ELSE f.locks]

\* Log::new of the other process: try_lock_exclusive on its descriptor.
\* Without the lock the descriptor is closed and BitCask::new returns the
\* error; with it the process holds the lock until it closes the file.
\* held: whether the engine held the file open when the lock was tried;
\* named: whether the log path named it.
OtherLock ==
    /\ opening.pc = "opened"
    /\ IF TryLockExclusive(fs, opening.ino)
       THEN /\ fs' = [fs EXCEPT !.locks = @ \cup {opening.ino}]
            /\ opening' = [opening EXCEPT !.pc = "locked"]
            /\ ret' = [op |-> "open2_step", pc |-> "locked"]
       ELSE /\ fs' = OtherClose(fs, opening.ino, FALSE)
            /\ opening' = NoOpening
            /\ ret' = [op |-> "open2", ok |-> FALSE,
                       held |-> log.open /\ opening.ino \in HeldAll,
                       named |-> fs.dir[LogPath] = opening.ino]
    /\ UNCHANGED <<log, key_dir, key_dir_root, mem, mem_root, iter, saved, orig,
                   compacting, synced, promised>>

\* BitCask::new of the other process: build_key_dir reads its file and cuts
\* an incomplete tail; BitCask::new returns the engine.
OtherBuild ==
    /\ opening.pc = "locked"
    /\ LET ino == opening.ino
           b == BuildKeyDir(fs.data[ino])
       IN /\ fs' = [fs EXCEPT !.data[ino] = SubSeq(@, 1, b.length)]
          /\ synced' = IF fs.dir[LogPath] = ino /\ b.length < synced
                       THEN b.length ELSE synced
          /\ ret' = [op |-> "open2", ok |-> TRUE,
                     held |-> log.open /\ ino \in HeldAll,
                     named |-> fs.dir[LogPath] = ino]
    /\ opening' = [opening EXCEPT !.pc = "built"]
    /\ UNCHANGED <<log, key_dir, key_dir_root, mem, mem_root, iter, saved, orig,
                   compacting, promised>>

\* The other process drops its engine: Drop for BitCask calls flush()
\* (sync_all on its file), then the file is closed and its lock released.
OtherDrop ==
    /\ opening.pc = "built"
    /\ fs' = OtherClose(fs, opening.ino, TRUE)
    /\ synced' = IF fs.dir[LogPath] = opening.ino
                 THEN Len(fs.data[opening.ino]) ELSE synced
    /\ opening' = NoOpening
    /\ ret' = [op |-> "open2_drop"]
    /\ UNCHANGED <<log, key_dir, key_dir_root, mem, mem_root, iter, saved, orig,
                   compacting, promised>>

\* compact() step by step and the stop of the process, with the calls that
\* fill the log and reopen it.
NextCompact ==
    \/ Open /\ UNCHANGED cvars
    \/ /\ CanAppend(MaxEntries)
       /\ Quiet
       /\ \E k \in StepKeys, v \in Values : BitCaskSet(k, v)
       /\ UNCHANGED <<mem, mem_root>>
       /\ UNCHANGED cvars
    \/ /\ CanAppend(MaxEntries)
       /\ Quiet
       /\ \E k \in DeletedKeys : BitCaskDelete(k)
       /\ UNCHANGED <<mem, mem_root>>
       /\ UNCHANGED cvars
    \/ CompactBegin
    \/ CompactSetLen
    \/ CompactEntry
    \/ CompactRename
    \/ CompactReplace
    \/ ProcessStop

SpecCompact == Init /\ [][NextCompact]_vars

\* The same calls of the engine, each of them also between any two system
\* calls of another process that opens the log path and drops its engine.
NextShared ==
    \/ Open /\ UNCHANGED cvars
    \/ /\ CanAppend(MaxShared)
       /\ Quiet
       /\ \E k \in StepKeys, v \in Values : BitCaskSet(k, v)
       /\ UNCHANGED <<mem, mem_root>>
       /\ UNCHANGED cvars
    \/ /\ CanAppend(MaxShared)
       /\ Quiet
       /\ \E k \in DeletedKeys : BitCaskDelete(k)
       /\ UNCHANGED <<mem, mem_root>>
       /\ UNCHANGED cvars
    \/ CompactBegin
    \/ CompactSetLen
    \/ CompactEntry
    \/ CompactRename
    \/ CompactReplace
    \/ ProcessStop
    \/ OtherOpen
    \/ OtherLock
    \/ OtherBuild
    \/ OtherDrop

SpecShared == Init /\ [][NextShared]_vars

(***************************************************************************)
(* Calls that return an error.  An append fails in seek or in the flush    *)
(* of the BufWriter, after which any number of the entry's bytes are in    *)
(* the file: the flush may have written a part, and the BufWriter's Drop   *)
(* writes what is left if it can.  compact() fails in Log::new, set_len,   *)
(* read_value, append_entry or rename, and drops new_log.                  *)
(***************************************************************************)

\* The bytes append_entry writes for an entry.
EntryBytes(key, value) == AppendEntry(<<>>, key, value).file

\* A slip: the bytes of the failed append are written from the start of
\* the file, over the entries it holds.
PartlyOverwritten(key, value, n) ==
    [fs EXCEPT !.data[log.ino] =
        SubSeq(EntryBytes(key, value), 1, n) \o SubSeq(@, n + 1, Len(@))]

\* The log file with the first n bytes of an entry after it.
PartlyAppended(key, value, n) ==
    [fs EXCEPT !.data[log.ino] = @ \o SubSeq(EntryBytes(key, value), 1, n)]

\* BitCask::set returns the error of append_entry: the KeyDir is not reached.
SetFails(key, value, n) ==
    /\ Idle
    /\ fs' = PartlyAppended(key, Some(value), n)
    /\ ret' = [op |-> "set", key |-> key, value |-> value, ok |-> FALSE, written |-> n]
    /\ UNCHANGED <<log, key_dir, key_dir_root, mem, mem_root, iter, saved, orig, cvars>>

\* BitCask::delete returns the error of append_entry.
DeleteFails(key, n) ==
    /\ Idle
    /\ fs' = PartlyAppended(key, None, n)
    /\ ret' = [op |-> "delete", key |-> key, ok |-> FALSE, written |-> n]
    /\ UNCHANGED <<log, key_dir, key_dir_root, mem, mem_root, iter, saved, orig, cvars>>

\* The file system after a compact() that failed at `stage`, having
\* written j entries to the new file and n bytes of the next one (none
\* when read_value failed, any number when append_entry failed).
CompactFailure(f, lg, kd, stage, j, n) ==
    LET new_path == SetExtensionNew(lg.path)
        keys == SortedKeys(DOMAIN kd)
        created == LogNew(f, {lg.ino}, new_path)
        Dropped(file) ==
            CloseFile([created.fs EXCEPT !.data[created.log.ino] = file],
                      created.log.ino)
        Partly(w) ==
            IF ~w.ok THEN Dropped(w.file)
            ELSE LET key == keys[j + 1]
                     value == ReadValue(f.data[lg.ino], kd[key][1], kd[key][2])
                 IN Dropped(w.file \o (IF value.ok
                                       THEN SubSeq(EntryBytes(key, Some(value.v)), 1, n)
                                       ELSE <<>>))
        Whole(w) == Dropped(w.file)
    IN CASE stage = "create" -> f
         [] stage = "lock" -> [f EXCEPT !.dir[new_path] =
                                  IF @ = Absent THEN AllocInode(f, {lg.ino}) ELSE @]
         [] stage = "set_len" -> CloseFile(created.fs, created.log.ino)
         [] stage = "entry" ->
              Partly(WriteLoop(f.data[lg.ino], kd, SubSeq(keys, 1, j), <<>>, EmptyKeyDir))
         [] stage = "rename" ->
              Whole(WriteLoop(f.data[lg.ino], kd, keys, <<>>, EmptyKeyDir))

CompactStages == {"create", "lock", "set_len", "entry", "rename"}

\* BitCask::compact returns an error: self.log and self.key_dir are not
\* assigned.
CompactFails(stage, j, n) ==
    /\ Idle
    /\ IF stage = "entry"
       THEN /\ j < Cardinality(DOMAIN key_dir)
            /\ n <= 8 + Len(SortedKeys(DOMAIN key_dir)[j + 1])
                      + key_dir[SortedKeys(DOMAIN key_dir)[j + 1]][2]
       ELSE j = 0 /\ n = 0
    /\ fs' = CompactFailure(fs, log, key_dir, stage, j, n)
    /\ ret' = [op |-> "compact", ok |-> FALSE, stage |-> stage,
               before |-> [scan |-> ScanAll, status |-> Status(key_dir, LogFile)]]
    /\ UNCHANGED <<log, key_dir, key_dir_root, mem, mem_root, iter, saved, orig, cvars>>

\* set and delete are called while the log file is at most MaxLogBytes long.
CanWrite == log.open /\ Len(LogFile) <= MaxLogBytes

\* The calls that succeed, on the BitCask engine alone.
NextWrites ==
    \/ Open /\ UNCHANGED cvars
    \/ /\ CanWrite
       /\ \E k \in StepKeys, v \in Values : BitCaskSet(k, v)
       /\ UNCHANGED <<mem, mem_root>>
       /\ UNCHANGED cvars
    \/ /\ CanWrite
       /\ \E k \in DeletedKeys : BitCaskDelete(k)
       /\ UNCHANGED <<mem, mem_root>>
       /\ UNCHANGED cvars
    \/ DoCompact /\ UNCHANGED cvars
    \/ DropEngine /\ UNCHANGED cvars

\* How many bytes of an entry a failed append is taken to have written:
\* none, a part of key_length, a part of value_length, all but the last
\* byte, all.
FailLengths(bytes) == {0, 3, 5, Len(bytes) - 1, Len(bytes)}

\* An append fails while no earlier failure has left the log file with an
\* incomplete entry in it.
CanFail == CanWrite /\ WellFormed(LogFile)

\* The calls that succeed and the calls that fail.
NextFail ==
    \/ NextWrites
    \/ /\ CanFail
       /\ \E k \in StepKeys, v \in Values :
             \E n \in FailLengths(EntryBytes(k, Some(v))) : SetFails(k, v, n)
    \/ /\ CanFail
       /\ \E k \in DeletedKeys :
             \E n \in FailLengths(EntryBytes(k, None)) : DeleteFails(k, n)
    \/ \E stage \in CompactStages, j \in 0..1, n \in {0, 5} : CompactFails(stage, j, n)

SpecFail == Init /\ [][NextFail]_vars

(***************************************************************************)
(* The lengths of large entries.  append_entry adds lengths as u32 and     *)
(* set computes the value offset as u64; a key of 2^32 - 1 bytes cannot be *)
(* written out here, so the arithmetic is carried out on the lengths       *)
(* alone.  A number is four limbs of 16 bits, the lowest first: it holds   *)
(* any u64.  An overflow panics in a debug build and wraps in a release    *)
(* build; both builds are taken.                                           *)
(***************************************************************************)
LimbBase == 65536

\* The number of four limbs for sums of limbs that may exceed a limb, and
\* the carry out of the highest.
Carried(a0, a1, a2, a3) ==
    LET b1 == a1 + (a0 \div LimbBase)
        b2 == a2 + (b1 \div LimbBase)
        b3 == a3 + (b2 \div LimbBase)
    IN [v |-> <<a0 % LimbBase, b1 % LimbBase, b2 % LimbBase, b3 % LimbBase>>,
        carry |-> b3 \div LimbBase]

\* A length below 2^31 as a number.
Wide(n) == <<n % LimbBase, n \div LimbBase, 0, 0>>

\* u32 addition: the sum modulo 2^32, and whether it overflowed.
U32Add(x, y) ==
    LET c == Carried(x[1] + y[1], x[2] + y[2], 0, 0)
    IN [v |-> <<c.v[1], c.v[2], 0, 0>>, overflow |-> c.v[3] # 0]

\* u64 addition and subtraction: modulo 2^64, and whether they overflowed.
U64Add(x, y) ==
    LET c == Carried(x[1] + y[1], x[2] + y[2], x[3] + y[3], x[4] + y[4])
    IN [v |-> c.v, overflow |-> c.carry # 0]

U64Sub(x, y) ==
    LET c == Carried(x[1] + (LimbBase - 1 - y[1]) + 1, x[2] + (LimbBase - 1 - y[2]),
                     x[3] + (LimbBase - 1 - y[3]), x[4] + (LimbBase - 1 - y[4]))
    IN [v |-> c.v, overflow |-> c.carry = 0]

\* append_entry: let append_length = 4 + 4 + key_length + value.len() as u32.
AppendLength(key_len, value_len) ==
    LET with_key == U32Add(Wide(4 + 4), key_len)
        with_value == U32Add(with_key.v, value_len)
    IN [v |-> with_value.v, overflow |-> with_key.overflow \/ with_value.overflow]

\* set: offset + write_length as u64 - value_length as u64.
WideValueOffset(offset, write_length, value_length) ==
    LET sum == U64Add(offset, write_length)
        diff == U64Sub(sum.v, value_length)
    IN [v |-> diff.v, overflow |-> sum.overflow \/ diff.overflow]

\* What set(key, value) does for a key of key_len and a value of value_len
\* bytes on a log of `offset` bytes: it panics, or it writes 8 + key_len +
\* value_len bytes (write_all takes the slices whole) and inserts
\* (value_offset, value_length) into the KeyDir.
SetLengths(key_len, value_len, offset, build) ==
    LET a == AppendLength(key_len, value_len)
        o == WideValueOffset(offset, a.v, value_len)
    IN IF build = "debug" /\ (a.overflow \/ o.overflow)
       THEN [panic |-> TRUE]
       ELSE [panic |-> FALSE,
             written |-> U64Add(U64Add(Wide(8), key_len).v, value_len).v,
             append_length |-> a.v,
             value_offset |-> o.v,
             value_length |-> value_len]

\* Key lengths up to 2^32 - 1, value lengths up to 2^31 - 1, log lengths.
KeyLengths == {Wide(0), Wide(1), Wide(2), Wide(65535), Wide(65536), <<65535, 32767, 0, 0>>,
               <<0, 32768, 0, 0>>, <<65527, 65535, 0, 0>>, <<65528, 65535, 0, 0>>,
               <<65535, 65535, 0, 0>>}
ValueLengths == {Wide(0), Wide(1), Wide(7), Wide(65536), <<65534, 32767, 0, 0>>,
                 <<65535, 32767, 0, 0>>}
LogLengths == {Wide(0), Wide(9), <<0, 0, 1, 0>>}
Builds == {"debug", "release"}

\* BitCask::set called with a key and a value of the given lengths.
SetWide(key_len, value_len, offset, build) ==
    /\ ret' = [op |-> "set_wide", key_len |-> key_len, value_len |-> value_len,
               offset |-> offset, build |-> build,
               result |-> SetLengths(key_len, value_len, offset, build)]
    /\ UNCHANGED <<fs, log, key_dir, key_dir_root, mem, mem_root, iter, saved, orig, cvars>>

NextWide ==
    \E key_len \in KeyLengths, value_len \in ValueLengths, offset \in LogLengths,
       build \in Builds : SetWide(key_len, value_len, offset, build)

SpecWide == Init /\ [][NextWide]_vars

(***************************************************************************)
(* scan(range) with every combination of bounds.                           *)
(***************************************************************************)

\* scan(range).collect() on both engines, the range kept with the result.
ScanRange(range) ==
    /\ Idle
    /\ ret' = [op |-> "scan_range", range |-> range,
               bitcask |-> BitCaskScan(LogFile, key_dir, key_dir_root, range),
               memory |-> MemoryScan(mem, mem_root, range)]
    /\ UNCHANGED <<fs, log, key_dir, key_dir_root, mem, mem_root, iter, saved, orig>>

NextRange ==
    \/ Open /\ UNCHANGED cvars
    \/ CanAppend(MaxEntries) /\ \E k \in StepKeys, v \in Values : Set(k, v) /\ UNCHANGED cvars
    \/ CanAppend(MaxEntries) /\ \E k \in DeletedKeys : Delete(k) /\ UNCHANGED cvars
    \/ \E r \in Ranges(RangeKeys) : ScanRange(r) /\ UNCHANGED cvars

SpecRange == Init /\ [][NextRange]_vars

(***************************************************************************)
(* compact() where a file exists at the sibling path: an earlier           *)
(* compaction that was interrupted, or anything else, left it there        *)
(* unlocked, with any bytes.                                               *)
(***************************************************************************)

\* What the file at the sibling path may hold: nothing, a byte that starts
\* no entry, a complete entry, more bytes than a compacted log has.
StaleContents == {<<>>, <<255>>, <<0, 0, 0, 1, 0, 0, 0, 1, 1, 7>>, [i \in 1..48 |-> 9]}

\* A file is left at the sibling path, or the one there is overwritten.
PlantSibling(bytes) ==
    /\ LET ino == IF fs.dir[NewPath] = Absent THEN AllocInode(fs, Held)
                  ELSE fs.dir[NewPath]
       IN fs' = [fs EXCEPT !.dir[NewPath] = ino, !.data[ino] = bytes]
    /\ ret' = [op |-> "plant"]
    /\ UNCHANGED <<log, key_dir, key_dir_root, mem, mem_root, iter, saved, orig, cvars>>

\* BitCask::compact.  sibling: what the file at the sibling path held
\* before the call, if there was one.
CompactOver ==
    /\ Idle
    /\ LET Compacted(c) ==
               /\ fs' = c.fs
               /\ log' = c.log
               /\ key_dir' = c.key_dir
               /\ key_dir_root' = IF c.ok THEN c.root ELSE key_dir_root
               /\ ret' = [op |-> "compact", ok |-> c.ok,
                          before |-> [scan |-> BitCaskScan(LogFile, key_dir, key_dir_root, FullRange),
                                      status |-> Status(key_dir, LogFile)],
                          sibling |-> IF fs.dir[NewPath] = Absent THEN None
                                      ELSE Some(fs.data[fs.dir[NewPath]])]
       IN Compacted(Compact(fs, log, key_dir))
    /\ UNCHANGED <<mem, mem_root, iter, saved, orig, cvars>>

NextSibling ==
    \/ Open /\ UNCHANGED cvars
    \/ /\ CanAppend(MaxEntries)
       /\ \E k \in StepKeys, v \in Values : BitCaskSet(k, v)
       /\ UNCHANGED <<mem, mem_root>>
       /\ UNCHANGED cvars
    \/ /\ CanAppend(MaxEntries)
       /\ \E k \in DeletedKeys : BitCaskDelete(k)
       /\ UNCHANGED <<mem, mem_root>>
       /\ UNCHANGED cvars
    \/ CompactOver
    \/ DropEngine /\ UNCHANGED cvars
    \/ \E bytes \in StaleContents : PlantSibling(bytes)

SpecSibling == Init /\ [][NextSibling]_vars

(***************************************************************************)
(* Properties.                                                             *)
(***************************************************************************)

\* C1: on a fresh BitCask engine and a fresh Memory engine that are given
\* the same set, delete, get and scan calls, every get and every scan
\* returns the same on both.
C1_Equivalence == ret.op \in {"get", "scan"} => ret.bitcask = ret.memory

C1_Witness ==
    /\ ret.op = "scan"
    /\ ~ret.bitcask.panic
    /\ Len(ret.bitcask.result.items) = 2
    /\ log.open
    /\ EntryCount(LogFile) = 3

\* C2: the KeyDir holds exactly the keys whose last entry in the log file is
\* a Put, and each KeyDir entry names the bytes of that Put's value.
C2_KeyDir ==
    log.open =>
        LET es == Entries(LogFile)
        IN /\ DOMAIN key_dir = LiveKeys(es)
           /\ \A k \in DOMAIN key_dir :
                 /\ key_dir[k][1] + key_dir[k][2] <= Len(LogFile)
                 /\ SubSeq(LogFile, key_dir[k][1] + 1, key_dir[k][1] + key_dir[k][2])
                        = LiveEntry(es, k).value

C2_Witness ==
    /\ log.open
    /\ LET es == Entries(LogFile)
       IN /\ Len(es) = 3
          /\ es[3].key = <<1>> /\ ~es[3].put
          /\ es[1].key = <<1, 255>> /\ es[2].key = <<1, 255>>
          /\ es[1].value # es[2].value
          /\ DOMAIN key_dir = {<<1, 255>>}

\* C3: a log of complete entries cut to t bytes opens, and scan(..) gives
\* the replay of the entries that end at or before t.
C3_Recovery ==
    (ret.op = "open" /\ ret.orig.some) =>
        /\ ret.ok
        /\ ScanAll = Scanned(ret.orig.v.replay)

C3_Witness ==
    /\ ret.op = "open"
    /\ ret.orig.some
    /\ ret.orig.v.entries = 2
    /\ Len(LogFile) < ret.orig.v.t
    /\ Len(ret.orig.v.replay) = 1
    /\ EntryCount(LogFile) = 2

\* C4: after the handle is dropped, opening the path again gives the
\* scan(..) the handle gave just before it was dropped.
C4_Persistence ==
    (ret.op = "open" /\ ret.saved.some) => (ret.ok /\ ScanAll = ret.saved.v)

C4_Witness ==
    /\ ret.op = "open"
    /\ ret.saved.some
    /\ ScanAll = ret.saved.v
    /\ Cardinality(DOMAIN key_dir) = 2
    /\ Status(key_dir, LogFile).garbage_disk_size > 0

\* C5: a successful compact() keeps scan(..), key_count and size, leaves no
\* garbage, keeps the log path, and the path reopens to the same scan(..).
C5_Compact ==
    (ret.op = "compact" /\ ret.ok) =>
        LET st == Status(key_dir, LogFile)
            reopened == BitCaskNew(CloseFile(fs, log.ino), {}, LogPath)
        IN /\ ScanAll = ret.before.scan
           /\ st.key_count = ret.before.status.key_count
           /\ st.size = ret.before.status.size
           /\ ~st.underflow
           /\ st.garbage_disk_size = 0
           /\ st.total_disk_size = st.live_disk_size
           /\ log.path = LogPath
           /\ fs.dir[LogPath] = log.ino
           /\ reopened.ok
           /\ BitCaskScan(reopened.fs.data[reopened.log.ino], reopened.key_dir,
                         reopened.root, FullRange)
                  = ret.before.scan

C5_Witness ==
    /\ ret.op = "compact"
    /\ ret.ok
    /\ ret.before.status.garbage_disk_size > 0
    /\ Cardinality(DOMAIN key_dir) = 2

\* C6: whenever a handle is open, status() does not underflow, its
\* total_disk_size is the file's length, its live_disk_size is size + 8 *
\* key_count and is the number of bytes the live keys' last Put entries
\* occupy, and size <= live_disk_size <= total_disk_size.
C6_Accounting ==
    log.open =>
        LET st == Status(key_dir, LogFile)
            es == Entries(LogFile)
        IN /\ ~st.underflow
           /\ st.total_disk_size = Len(LogFile)
           /\ st.live_disk_size = st.size + 8 * st.key_count
           /\ st.live_disk_size = LiveBytes(es, LiveKeys(es))
           /\ st.garbage_disk_size = st.total_disk_size - st.live_disk_size
           /\ st.size <= st.live_disk_size
           /\ st.live_disk_size <= st.total_disk_size

C6_Witness ==
    /\ ret.op = "open"
    /\ ret.orig.some
    /\ Len(LogFile) < ret.orig.v.t
    /\ Status(key_dir, LogFile).garbage_disk_size > 0
    /\ Status(key_dir, LogFile).size > 0

\* C7: an open attempt while a handle is open fails and leaves the file as
\* it was; an open attempt while no handle is open succeeds.
C7_SingleOpener ==
    /\ ret.op = "open2" =>
          (~ret.ok /\ fs.dir[LogPath] # Absent /\ Some(fs.data[fs.dir[LogPath]]) = ret.before)
    /\ ret.op = "open" => ret.ok

C7_Witness ==
    /\ ret.op = "open2"
    /\ ~ret.ok
    /\ Some(fs.data[fs.dir[LogPath]]) = ret.before
    /\ Len(ret.before.v) > 0

\* C8: new_compact compacts exactly when garbage_disk_size > 0 and
\* garbage_disk_size / total_disk_size >= threshold, and otherwise leaves
\* the file and the status as a plain open does; a threshold <= 0 compacts
\* whenever there is garbage, a threshold > 1 and an empty file never.
C8_NewCompact ==
    ret.op = "new_compact" =>
        /\ ret.ok
        /\ LET o == ret.opened.status
               th == ret.threshold
               now == Status(key_dir, LogFile)
               due == /\ o.garbage_disk_size > 0
                      /\ o.garbage_disk_size * th[2] >= th[1] * o.total_disk_size
           IN /\ due => /\ Len(LogFile) < Len(ret.opened.file)
                        /\ now.garbage_disk_size = 0
                        /\ now.total_disk_size = o.live_disk_size
                        /\ now.key_count = o.key_count
                        /\ now.size = o.size
              /\ ~due => (LogFile = ret.opened.file /\ now = o)
              /\ (th[1] <= 0 /\ o.garbage_disk_size > 0) => now.garbage_disk_size = 0
              /\ th[1] > th[2] => LogFile = ret.opened.file
              /\ o.total_disk_size = 0 => LogFile = ret.opened.file

C8_Witness ==
    /\ ret.op = "new_compact"
    /\ ret.threshold = <<1, 2>>
    /\ ret.opened.status.garbage_disk_size * 2 = ret.opened.status.total_disk_size
    /\ ret.opened.status.key_count > 0
    /\ Len(LogFile) < Len(ret.opened.file)

\* `key` starts with `prefix`.
StartsWith(key, prefix) ==
    Len(prefix) <= Len(key) /\ SubSeq(key, 1, Len(prefix)) = prefix

\* The live pairs of the log file whose keys are in `keys`, ascending.
LivePairsIn(keys) == PairsOf(Entries(LogFile), SortedKeys(keys \cap LiveKeys(Entries(LogFile))))

\* C9: scan_prefix(p) yields, on both engines, exactly the live (key, value)
\* pairs whose key starts with p, in ascending key order, for every prefix
\* p, the empty one and those ending in or made only of 0xff bytes
\* included; when p is empty or all 0xff the range's upper bound is
\* Unbounded.
C9_ScanPrefix ==
    ret.op = "scan_prefix" =>
        LET expected == LivePairsIn({k \in ScanKeys : StartsWith(k, ret.prefix)})
        IN /\ ret.bitcask = Scanned(expected)
           /\ ret.memory = Scanned(expected)
           /\ PrefixRange(ret.prefix).start = Included(ret.prefix)
           /\ (\A i \in 1..Len(ret.prefix) : ret.prefix[i] = 255)
                  => PrefixRange(ret.prefix).end = Unbounded

\* scan_prefix of a prefix ending in 0xff returned one of three live pairs,
\* a key above the prefix's range and one below it left out.
C9_Witness ==
    /\ ret.op = "scan_prefix"
    /\ ret.prefix = <<1, 255>>
    /\ DOMAIN key_dir = {<<1>>, <<1, 255>>, <<2>>}
    /\ ret.bitcask.result.items = << <<(<<1, 255>>), <<7>> >> >>

\* What an iterator over a range whose live pairs are `expected` has
\* returned: no errors, the front items the first pairs in order, the back
\* items the last pairs in reverse order, no pair by both ends.
Emitted(it, expected) ==
    /\ \A i \in 1..Len(it.front) : it.front[i].ok
    /\ \A i \in 1..Len(it.back) : it.back[i].ok
    /\ Len(it.front) + Len(it.back) <= Len(expected)
    /\ \A i \in 1..Len(it.front) : it.front[i].item = expected[i]
    /\ \A i \in 1..Len(it.back) : it.back[i].item = expected[Len(expected) + 1 - i]
    /\ \A i, j \in 1..Len(it.front) :
          i < j => KeyLess(it.front[i].item[1], it.front[j].item[1])
    /\ \A i, j \in 1..Len(it.back) :
          i < j => KeyLess(it.back[j].item[1], it.back[i].item[1])

\* The last call's result on the iterator `it`: the item it put last at
\* its end, or None with every pair of the range returned.
Returned(it, expected, item, end) ==
    IF item.some
    THEN /\ end # <<>>
         /\ item.v = end[Len(end)]
    ELSE /\ Len(it.front) + Len(it.back) = Len(expected)
         /\ it.inner = <<>>

\* C10: for a scan iterator of either engine over any range, next() returns
\* keys in strictly ascending order and next_back() in strictly descending
\* order; under any interleaving of the two every live pair of the range is
\* returned exactly once and by one end only, and after that both calls
\* return None.
C10_Iterator ==
    iter.open =>
        LET expected == LivePairsIn({k \in ScanKeys : InRange(k, iter.range)})
        IN /\ Emitted(iter.bitcask, expected)
           /\ Emitted(iter.memory, expected)
           /\ ret.op = "next" =>
                 /\ Returned(iter.bitcask, expected, ret.bitcask, iter.bitcask.front)
                 /\ Returned(iter.memory, expected, ret.memory, iter.memory.front)
           /\ ret.op = "next_back" =>
                 /\ Returned(iter.bitcask, expected, ret.bitcask, iter.bitcask.back)
                 /\ Returned(iter.memory, expected, ret.memory, iter.memory.back)
           /\ (Len(iter.bitcask.front) + Len(iter.bitcask.back) < Len(expected))
                 => (ret.op \in {"next", "next_back"} => ret.bitcask.some /\ ret.memory.some)

\* An iterator over three live pairs has returned two by next() and one by
\* next_back(), and a further next_back() returned None.
C10_Witness ==
    /\ iter.open
    /\ iter.range = FullRange
    /\ Cardinality(DOMAIN key_dir) = 3
    /\ Len(iter.bitcask.front) = 2
    /\ Len(iter.bitcask.back) = 1
    /\ ret.op = "next_back"
    /\ ~ret.bitcask.some
    /\ ~ret.memory.some

\* The file the log path names.
PathFile == fs.data[fs.dir[LogPath]]

\* C11: every successful delete(key) appends exactly one Tombstone entry of
\* 8 + len(key) bytes to the log, whether or not the key was in the KeyDir,
\* removes the key from the KeyDir and leaves every other KeyDir entry as it
\* was; get(key) returns None afterwards.
C11_Delete ==
    [][(ret'.op = "delete" /\ ret'.ok) =>
        LET key == ret'.key
            before == LogFile
            after == fs'.data[log'.ino]
        IN /\ log' = log
           /\ Len(after) = Len(before) + 8 + Len(key)
           /\ SubSeq(after, 1, Len(before)) = before
           /\ Entries(after) = Append(Entries(before),
                                       [put |-> FALSE, key |-> key, value |-> <<>>,
                                        start |-> Len(before),
                                        end |-> Len(before) + 8 + Len(key)])
           /\ DOMAIN key_dir' = (DOMAIN key_dir) \ {key}
           /\ \A k \in DOMAIN key_dir' : key_dir'[k] = key_dir[k]
           /\ BitCaskGet(after, key_dir', key) = [ok |-> TRUE, v |-> None]
    ]_vars

\* delete of a key that was never set, beside a live key: the log holds the
\* other key's Put and the Tombstone, the KeyDir the other key alone.
C11_Witness ==
    /\ ret.op = "delete"
    /\ ret.key = <<1>>
    /\ LET es == Entries(LogFile)
       IN /\ Len(es) = 2
          /\ es[1].put /\ es[1].key = <<1, 255>>
          /\ ~es[2].put /\ es[2].key = <<1>>
    /\ DOMAIN key_dir = {<<1, 255>>}

\* C12: set and delete leave every byte the log file had and add bytes at
\* its end; get, scan, status and flush leave the file as it is; the file
\* of the log path gets shorter in no call but an open that truncates and a
\* compaction.
C12_AppendOnly ==
    [][/\ ret'.op \in {"set", "delete"} =>
            /\ log' = log
            /\ Len(fs'.data[log.ino]) > Len(LogFile)
            /\ SubSeq(fs'.data[log.ino], 1, Len(LogFile)) = LogFile
       /\ ret'.op \in {"get", "scan", "status", "flush"} =>
            /\ log' = log
            /\ fs'.data[log.ino] = LogFile
       /\ (/\ fs.dir[LogPath] # Absent
           /\ ret'.op # "truncate"
           /\ Len(fs'.data[fs'.dir[LogPath]]) < Len(PathFile)) =>
            ret'.op \in {"open", "compact"}
    ]_vars

\* A delete appended the third entry to a log of two, which it left as
\* they were.
C12_Witness ==
    /\ ret.op = "delete"
    /\ Len(Entries(LogFile)) = 3
    /\ WellFormed(LogFile)
    /\ Entries(LogFile)[1].put
    /\ Entries(LogFile)[2].put

\* The calls that only read: get, status, flush, scan and scan_prefix with
\* the iterators they return.
ReadOps == {"get", "status", "flush", "scan", "scan_prefix", "scan_panic",
            "scan_iter", "next", "next_back", "iter_drop"}

\* C13: get, status, scan, scan_prefix (a consumed iterator included) and
\* flush leave the log file and the KeyDir as they were; get of a key that
\* the KeyDir lacks returns None and makes no read of the log.
C13_ReadOnly ==
    [][ret'.op \in ReadOps =>
        /\ fs' = fs
        /\ log' = log
        /\ key_dir' = key_dir
        /\ (ret'.op = "get" /\ ret'.key \notin DOMAIN key_dir) =>
              /\ ret'.bitcask = [ok |-> TRUE, v |-> None]
              /\ GetReads(key_dir, ret'.key) = <<>>
    ]_vars

\* get of a deleted key on a log that holds entries returned None.
C13_Witness ==
    /\ ret.op = "get"
    /\ log.open
    /\ ret.key \notin DOMAIN key_dir
    /\ \E i \in 1..Len(Entries(LogFile)) : Entries(LogFile)[i].key = ret.key
    /\ key_dir # <<>>
    /\ ret.bitcask = [ok |-> TRUE, v |-> None]

\* garbage_disk_size as status() reports it for a KeyDir and a log file.
Garbage(kd, file) == Status(kd, file).garbage_disk_size

\* The bytes of the log that the entry of a key of the KeyDir takes.
EntrySize(kd, key) == 8 + Len(key) + kd[key][2]

\* C14, as stated: every set and every delete on a log that is Clean or
\* Dirty (it holds entries) leaves garbage_disk_size > 0, compact leaves it
\* 0, flush leaves it as it was.
C14_Original ==
    [][/\ (ret'.op \in {"set", "delete"} /\ Len(LogFile) > 0) =>
            Garbage(key_dir', fs'.data[log'.ino]) > 0
       /\ (ret'.op = "compact" /\ ret'.ok) =>
            Garbage(key_dir', fs'.data[log'.ino]) = 0
       /\ ret'.op = "flush" =>
            Garbage(key_dir', fs'.data[log'.ino]) = Garbage(key_dir, LogFile)
    ]_vars

\* C14, amended: a delete, and a set of a key that the KeyDir holds, leave
\* garbage_disk_size > 0 (it grows by the entry that is superseded and, for
\* a delete, by the tombstone); a set of a key that the KeyDir lacks leaves
\* garbage_disk_size as it was, so a Clean log stays Clean; compact leaves
\* it 0; flush leaves it as it was.
C14_StateMachine ==
    [][/\ ret'.op \in {"set", "delete", "compact", "flush"} =>
            ~Status(key_dir', fs'.data[log'.ino]).underflow
       /\ ret'.op = "delete" =>
            /\ Garbage(key_dir', fs'.data[log'.ino]) > 0
            /\ Garbage(key_dir', fs'.data[log'.ino]) =
                  Garbage(key_dir, LogFile) + 8 + Len(ret'.key)
                  + (IF ret'.key \in DOMAIN key_dir
                     THEN EntrySize(key_dir, ret'.key) ELSE 0)
       /\ (ret'.op = "set" /\ ret'.key \in DOMAIN key_dir) =>
            /\ Garbage(key_dir', fs'.data[log'.ino]) > 0
            /\ Garbage(key_dir', fs'.data[log'.ino]) =
                  Garbage(key_dir, LogFile) + EntrySize(key_dir, ret'.key)
       /\ (ret'.op = "set" /\ ret'.key \notin DOMAIN key_dir) =>
            Garbage(key_dir', fs'.data[log'.ino]) = Garbage(key_dir, LogFile)
       /\ (ret'.op = "compact" /\ ret'.ok) =>
            Garbage(key_dir', fs'.data[log'.ino]) = 0
       /\ ret'.op = "flush" =>
            Garbage(key_dir', fs'.data[log'.ino]) = Garbage(key_dir, LogFile)
    ]_vars

\* A set of a second key on a log without garbage left it without garbage.
C14_Witness ==
    /\ ret.op = "set"
    /\ log.open
    /\ Cardinality(DOMAIN key_dir) = 2
    /\ Len(Entries(LogFile)) = 2
    /\ Garbage(key_dir, LogFile) = 0

\* C15: after a successful compact() the log file is a sequence of Put
\* entries, one for each key the KeyDir held and no other entry, in strictly
\* ascending key order, each with the value the key had; the new KeyDir has
\* the same keys and maps each to the start of its entry + 8 + len(key) and
\* to the value_length it had.
C15_CompactLayout ==
    [][(ret'.op = "compact" /\ ret'.ok) =>
        LET new == fs'.data[log'.ino]
            es == Entries(new)
        IN /\ WellFormed(new)
           /\ Len(es) = Cardinality(DOMAIN key_dir)
           /\ {es[i].key : i \in 1..Len(es)} = DOMAIN key_dir
           /\ DOMAIN key_dir' = DOMAIN key_dir
           /\ \A i \in 1..Len(es) :
                 /\ es[i].put
                 /\ es[i].value = ReadValue(LogFile, key_dir[es[i].key][1],
                                            key_dir[es[i].key][2]).v
                 /\ key_dir'[es[i].key] =
                       <<es[i].start + 8 + Len(es[i].key), key_dir[es[i].key][2]>>
           /\ \A i, j \in 1..Len(es) : i < j => KeyLess(es[i].key, es[j].key)
    ]_vars

\* A compaction wrote the two Put entries of a log that held garbage.
C15_Witness ==
    /\ ret.op = "compact"
    /\ ret.ok
    /\ Len(Entries(LogFile)) = 2
    /\ DOMAIN key_dir = {<<1>>, <<1, 255>>}
    /\ ret.before.status.total_disk_size > Len(LogFile)
    /\ ret.before.status.garbage_disk_size >= 8

\* C16: when the path is reopened after a crash, scan(..) is the scan(..)
\* of the last successful flush or that of a later state of the handle: no
\* set or delete that returned before the flush is missing, whatever set,
\* delete and compact calls came after it.
C16_Durable ==
    [][(ret'.op = "open" /\ promised.some) =>
          /\ ret'.ok
          /\ ScanAllNext \in promised.v
    ]_vars

\* scan(..) of the engine that BitCask::new gives on the log path when no
\* handle is open.
ReopenedScan ==
    LET Scanned2(r) == IF r.ok
                       THEN Some(BitCaskScan(r.fs.data[r.log.ino], r.key_dir, r.root, FullRange))
                       ELSE None
    IN Scanned2(BitCaskNew(fs, {}, LogPath))

\* C17: at every step of compact() the file at the log path is the
\* complete old log (until the rename) or the complete new log that
\* write_log produces from it (after the rename); when the process stops at
\* any step, or outside compact(), reopening the log path succeeds and gives
\* the scan(..) the handle gave before compact() began.
C17_CompactStop ==
    /\ compacting.pc \in {"created", "writing"} =>
          /\ fs.dir[LogPath] = log.ino
          /\ PathFile = compacting.old
    /\ compacting.pc = "renamed" =>
          /\ fs.dir[LogPath] = compacting.new_log.ino
          /\ fs.dir[NewPath] = Absent
          /\ LogFile = compacting.old
          /\ PathFile = WriteLoop(compacting.old, key_dir, SortedKeys(DOMAIN key_dir),
                                  <<>>, EmptyKeyDir).file
          /\ WellFormed(PathFile)
    /\ ret.op = "stop" =>
          /\ fs.dir[LogPath] # Absent
          /\ ReopenedScan = saved
    /\ (ret.op = "open" /\ ret.saved.some) =>
          /\ ret.ok
          /\ ScanAll = ret.saved.v

\* The process stopped within the loop of write_log: the sibling file holds
\* a part of the new log, the log path the old log with its garbage.
C17_Witness ==
    /\ ret.op = "stop"
    /\ ret.pc = "writing"
    /\ fs.dir[NewPath] # Absent
    /\ Len(fs.data[fs.dir[NewPath]]) > 0
    /\ ~WellFormed(fs.data[fs.dir[NewPath]])
    /\ Len(saved.v.result.items) = 2
    /\ Len(Entries(PathFile)) = 3

\* C18: while a handle is open, the file at the log path is one that the
\* engine holds open and locked: the old file until the rename, the renamed
\* new file after it; the old file stays locked until the handle's log is
\* replaced; and a BitCask::new of another process on the log path, begun
\* and ended at any steps, fails while the engine is open.
C18_LockedAcross ==
    /\ log.open =>
          /\ fs.dir[LogPath] \in HeldAll
          /\ fs.dir[LogPath] \in fs.locks
          /\ log.ino \in fs.locks
    /\ ~Quiet =>
          /\ compacting.new_log.ino \in fs.locks
          /\ compacting.new_log.ino # log.ino
    /\ compacting.pc \in {"created", "writing"} => fs.dir[LogPath] = log.ino
    /\ compacting.pc = "renamed" => fs.dir[LogPath] = compacting.new_log.ino
    /\ (ret.op = "open2" /\ log.open) => ~ret.ok

\* C19: a set, delete or compact that returns an error leaves the KeyDir
\* and the log handle as they were, and what the log file held where it
\* was; get of every key and scan(..) return what they returned before.
C19_FailedCall ==
    [][(ret'.op \in {"set", "delete", "compact"} /\ ~ret'.ok) =>
          /\ key_dir' = key_dir
          /\ log' = log
          /\ fs'.dir[LogPath] = fs.dir[LogPath]
          /\ fs'.locks = fs.locks
          /\ SubSeq(fs'.data[log.ino], 1, Len(LogFile)) = LogFile
          /\ ScanAllNext = ScanAll
          /\ \A k \in Keys :
                BitCaskGet(fs'.data[log'.ino], key_dir', k) = BitCaskGet(LogFile, key_dir, k)
    ]_vars

\* A set failed after it had written five bytes of its entry behind the
\* entry of another key; scan(..) still gives the one pair.
C19_Witness ==
    /\ ret.op = "set"
    /\ ~ret.ok
    /\ ret.written = 5
    /\ ~WellFormed(LogFile)
    /\ Cardinality(DOMAIN key_dir) = 1
    /\ Len(ScanAll.result.items) = 1
    /\ ret.key \notin DOMAIN key_dir
    /\ Len(LogFile) >= 14

\* C20: when a handle is dropped whose log file holds an incomplete entry
\* that a failed set or delete left, at its end or with the entries of
\* later successful calls after it, BitCask::new on the path succeeds and
\* scan(..) of the new handle is the scan(..) the old handle gave last.
C20_Repaired ==
    [][(/\ ret'.op = "open"
        /\ saved.some
        /\ fs.dir[LogPath] # Absent
        /\ ~WellFormed(PathFile)) =>
          /\ ret'.ok
          /\ ScanAllNext = saved.v
    ]_vars

\* What BitCask::new gives on the log path once the handle is closed.
Reopened == BitCaskNew(CloseFile(fs, log.ino), {}, LogPath)

\* C21: after an open of a log of complete entries that was cut at any
\* byte, the file is a concatenation of complete entries, it has the
\* entries that ended at or before the cut and no byte more; with set and
\* delete calls made on that handle or none, a further open of the file
\* cuts nothing, builds the KeyDir the handle has and, after a drop, gives
\* the scan(..) the handle gave.
C21_Recovered ==
    /\ (ret.op = "open" /\ ret.orig.some) =>
          /\ ret.ok
          /\ WellFormed(LogFile)
          /\ Len(Entries(LogFile)) = ret.orig.v.entries
          /\ Len(LogFile) <= ret.orig.v.t
    /\ log.open =>
          /\ WellFormed(LogFile)
          /\ Reopened.ok
          /\ Reopened.fs.data[Reopened.log.ino] = LogFile
          /\ Reopened.key_dir = key_dir
    /\ (ret.op = "open" /\ ret.saved.some) =>
          /\ ret.ok
          /\ ScanAll = ret.saved.v

\* An open cut a log within the header of its second entry.
C21_Witness ==
    /\ ret.op = "open"
    /\ ret.orig.some
    /\ Len(Entries(LogFile)) = 1
    /\ ret.orig.v.t - Len(LogFile) \in 1..7
    /\ DOMAIN key_dir = {<<1>>}

\* C22: for every key length up to 2^32 - 1 and value length up to
\* 2^31 - 1, set does not panic, append_length is 8 + K + V, the bytes
\* written are as many, and the KeyDir gets value_offset = append start +
\* 8 + K and value_length = V.
C22_Lengths ==
    ret.op = "set_wide" =>
        LET exact == U64Add(U64Add(Wide(8), ret.key_len).v, ret.value_len).v
        IN /\ ~ret.result.panic
           /\ ret.result.append_length = exact
           /\ ret.result.written = exact
           /\ ret.result.value_offset = U64Add(U64Add(ret.offset, Wide(8)).v, ret.key_len).v
           /\ ret.result.value_length = ret.value_len

\* C23: for every start bound and end bound, also with the start key at or
\* above the end key, scan(range) returns on both engines an iterator that
\* yields exactly the live pairs whose keys are within the range, in
\* ascending order, and none when the range is empty.
C23_Ranges ==
    ret.op = "scan_range" =>
        /\ ~ret.bitcask.panic
        /\ ~ret.memory.panic
        /\ ret.bitcask = ret.memory
        /\ ret.bitcask.result.ok
        /\ ret.bitcask.result.items =
              LivePairsIn({k \in StepKeys : InRange(k, ret.range)})

\* The log file that holds one Put entry for each pair of `items`, in
\* their order, and nothing else.
RECURSIVE LogOf(_)
LogOf(items) ==
    IF items = <<>> THEN <<>>
    ELSE EntryBytes(Head(items)[1], Some(Head(items)[2])) \o LogOf(Tail(items))

\* C24: whatever a file at the sibling path held before the call, compact()
\* succeeds, the log file then is the Put entries of the pairs that
\* scan(..) gave before the call and nothing else, scan(..) gives the same
\* pairs, the log path names the handle's file, and the sibling path names
\* no file.
C24_Sibling ==
    (ret.op = "compact" /\ "sibling" \in DOMAIN ret) =>
        /\ ret.ok
        /\ ret.before.scan.result.ok
        /\ LogFile = LogOf(ret.before.scan.result.items)
        /\ ScanAll = ret.before.scan
        /\ fs.dir[LogPath] = log.ino
        /\ fs.dir[NewPath] = Absent
        /\ fs.locks = {log.ino}
        /\ \A i \in Inodes \ {log.ino} : fs.data[i] = <<>>

\* compact() ran over a sibling file longer than the log it wrote.
C24_Witness ==
    /\ ret.op = "compact"
    /\ ret.ok
    /\ ret.sibling.some
    /\ Len(ret.sibling.v) > Len(LogFile)
    /\ Len(Entries(LogFile)) = 2
    /\ ret.before.status.garbage_disk_size > 0

============================================================================
